---- MODULE Spec2Model ----
(***************************************************************************)
(* A model of the redshift scan of redrock (py/redrock/zscan.py) and of    *)
(* the work distribution helper (py/redrock/utils.py).                     *)
(*                                                                         *)
(*   SpecDW : distribute_work, one loop iteration per step.                *)
(*   Spec, FairSpec : calc_zchi2_targets in ring mode and in pool mode.    *)
(*   SpecFit : calc_zchi2_v3 on the CPU path and on the GPU path.          *)
(*   SpecProgress : the progress loop of pool mode, many targets.          *)
(*   SpecPool : calc_zchi2_targets in pool mode, with and without use_gpu. *)
(*   SpecRing : calc_zchi2_targets in ring mode, with and without use_gpu. *)
(*   SpecKernel : a launch of the kernel batch_dot_product_3d3d, one       *)
(*                thread per step.                                         *)
(***************************************************************************)
EXTENDS Integers, Sequences, FiniteSets, Bags, TLC

VARIABLES
    dwArgs,     \* distribute_work: the arguments (nproc, ids, weights, capacities)
    dwSids,     \* distribute_work: sids, the ids sorted by descending weight
    dwPos,      \* distribute_work: position of the for loop in sids
    dwProcs,    \* distribute_work: dist and the load of each process
    dwPc        \* distribute_work: "call", "loop", "done" or "raised"

VARIABLES
    scanCfg,    \* calc_zchi2_targets: targets, templates, mp_procs, use_gpu, the communicator
    pc,         \* per process running calc_zchi2_targets: where it is
    ti,         \* per process: index of the template t of "for t in templates"
    results,    \* per process: the results dictionary
    acc,        \* per process: the zchi2, zcoeff and penalty dictionaries
    tlocal,     \* per process: t.local.index, the slice resident in its template
    chan,       \* per process: the slices sent to it and not yet received
    prog,       \* per process: prog (ring mode)
    proglast,   \* per process: proglast
    emitted,    \* per process: the percentages written to stdout for the template
    mpdist,     \* pool mode: the distribution of the targets over the processes
    procs,      \* pool mode: the indices of the processes started for the template
    child,      \* pool mode: per started process, its position and its rows
    qout,       \* pool mode: the result queue
    qprog,      \* pool mode: the progress queue
    tot,        \* pool mode: tot, the progress counts received
    progincr,   \* pool mode: progincr
    nrecv,      \* pool mode: number of results taken from qout
    fits,       \* history: the bag of fits performed, <<process, template, target, slice>>
    nput,       \* history: the calls of progress.put(1) made by the fit routine
    \* calc_zchi2_v3, called with use_gpu=False and then with use_gpu=True
    fitIn,      \* the arguments: target_data, dtemplate.local.data, the template, comm
    fitPc,      \* per call: where it stands
    fitJ,       \* per call: j of "for j in range(ntargets)"
    fitOut,     \* per call: zchi2, zcoeff and zchi2penalty
    fitSolves,  \* history, per call: the targets calc_zchi2_batch_v3 was called for
    fitPut      \* per call: the counts put on the progress queue

VARIABLES
    \* calc_batch_dot_product_3d3d_gpu, a launch of batch_dot_product_3d3d
    kIn,        \* the shapes nz, nrows, ncols; the element of M and the thread order followed
    kPc,        \* "idle", "call", "running" or "done"
    kGrid,      \* nparallel and the number of blocks of the launch
    kRan,       \* the number of threads that have run
    kAdded      \* history, per row j: how often the product term of row j was added to the element

dwVars == <<dwArgs, dwSids, dwPos, dwProcs, dwPc>>

scanVars == <<scanCfg, pc, ti, results, acc, tlocal, chan, prog, proglast, emitted,
              mpdist, procs, child, qout, qprog, tot, progincr, nrecv, fits, nput>>

fitVars == <<fitIn, fitPc, fitJ, fitOut, fitSolves, fitPut>>

gpuVars == <<kIn, kPc, kGrid, kRan, kAdded>>

vars == <<dwVars, scanVars, fitVars, gpuVars>>

(***************************************************************************)
(* Bounds of the model.                                                    *)
(***************************************************************************)
MaxUnits == 3       \* longest list of work unit ids given to distribute_work
MaxProc == 2        \* largest number of processes given to distribute_work
MaxWeight == 2      \* largest weight of a work unit
MaxCapacity == 2    \* largest capacity of a process
MaxRanks == 2       \* largest communicator size (ring mode) and mp_procs (pool mode)
MaxTargets == 2     \* largest number of targets of a scan
MaxTemplates == 2   \* largest number of templates of a scan
MaxNz == 3          \* longest redshift grid of a template

(***************************************************************************)
(* Generic helpers.                                                        *)
(***************************************************************************)
\* An optional argument: NoneVal when it is not given, Some(v) when it is.
NoneVal == <<>>
Some(v) == <<v>>

Range(s) == {s[i] : i \in DOMAIN s}

RECURSIVE SumSeq(_)
SumSeq(s) == IF s = <<>> THEN 0 ELSE Head(s) + SumSeq(Tail(s))

RECURSIVE Flatten(_)
Flatten(ss) == IF ss = <<>> THEN <<>> ELSE Head(ss) \o Flatten(Tail(ss))

(***************************************************************************)
(* utils.distribute_work                                                   *)
(***************************************************************************)
\* weights = { x : 1 for x in ids } when no weights are given.
DefaultWeights(ids, weights) ==
    IF weights = NoneVal THEN [x \in Range(ids) |-> 1] ELSE weights[1]

\* A variant of the default below: every capacity is 1, given or not.
DefaultCapacitiesMutIgnoreGiven(nproc, capacities) == [i \in 1..nproc |-> 1]

\* capacities = [1] * nproc when no capacities are given.
DefaultCapacities(nproc, capacities) ==
    IF capacities = NoneVal THEN [i \in 1..nproc |-> 1] ELSE capacities[1]

\* One insertion of the stable descending sort: x goes behind every element
\* whose weight is at least its own.
RECURSIVE InsertDesc(_, _, _)
InsertDesc(s, x, w) ==
    IF s = <<>> THEN <<x>>
    ELSE IF w[Head(s)] >= w[x] THEN <<Head(s)>> \o InsertDesc(Tail(s), x, w)
    ELSE <<x>> \o s

\* A variant of the sort below: the ids stay in input order.
SortByWeightDescMutInputOrder(ids, w) == ids

\* sorted(ids, key=lambda x: weights[x], reverse=True): stable, so ids of
\* equal weight keep their input order.
RECURSIVE SortByWeightDesc(_, _)
SortByWeightDesc(ids, w) ==
    IF ids = <<>> THEN <<>>
    ELSE InsertDesc(SortByWeightDesc(SubSeq(ids, 1, Len(ids) - 1), w), ids[Len(ids)], w)

\* dist = [list() for _ in range(nproc)] and the processes with load 0.
DWInitProcs(nproc, caps) ==
    [dist |-> [i \in 1..nproc |-> <<>>], load |-> [i \in DOMAIN caps |-> 0]]

\* A variant of the order below: on equal quotients the process of smaller
\* capacity comes first.
KeyLessMutSmallerCapacity(p, q, load, caps, w) ==
    LET s == caps[p] * caps[q]
        np == (load[p] + w) * caps[q] * s
        nq == (load[q] + w) * caps[p] * s
    IN  \/ np < nq
        \/ np = nq /\ caps[p] * s < caps[q] * s
        \/ np = nq /\ caps[q] = caps[p] /\ p < q

\* The key ((load + w)/capacity, 1/capacity, id) of process p is smaller than
\* that of process q.  No capacity is 0; a/b < c/d exactly when
\* a*d*(b*d) < c*b*(b*d), whatever the signs of b and d.
KeyLess(p, q, load, caps, w) ==
    LET s == caps[p] * caps[q]
        np == (load[p] + w) * caps[q] * s
        nq == (load[q] + w) * caps[p] * s
    IN  \/ np < nq
        \/ np = nq /\ caps[q] * s < caps[p] * s
        \/ np = nq /\ caps[q] = caps[p] /\ p < q

\* A variant of the choice below: the process of greatest key.
MinLoadProcMutMax(load, caps, w) ==
    CHOOSE p \in DOMAIN caps :
        \A q \in DOMAIN caps \ {p} : KeyLess(q, p, load, caps, w)

\* min(processes, key=...) followed by processes.index(minload).
MinLoadProc(load, caps, w) ==
    CHOOSE p \in DOMAIN caps :
        \A q \in DOMAIN caps \ {p} : KeyLess(p, q, load, caps, w)

\* A variant of the iteration below: the id lands in every list, as when the
\* lists of dist are one shared object.
DWAssignMutAppendAll(st, id, weights, caps) ==
    LET i == MinLoadProc(st.load, caps, weights[id])
    IN  [dist |-> [k \in DOMAIN st.dist |-> Append(st.dist[k], id)],
         load |-> [st.load EXCEPT ![i] = @ + weights[id]]]

\* A variant of the iteration below: the load of the process is not raised.
DWAssignMutLoadKept(st, id, weights, caps) ==
    LET i == MinLoadProc(st.load, caps, weights[id])
    IN  [dist |-> [st.dist EXCEPT ![i] = Append(@, id)],
         load |-> st.load]

\* One iteration of "for id in sids".
DWAssign(st, id, weights, caps) ==
    LET i == MinLoadProc(st.load, caps, weights[id])
    IN  [dist |-> [st.dist EXCEPT ![i] = Append(@, id)],
         load |-> [st.load EXCEPT ![i] = @ + weights[id]]]

RECURSIVE DWLoop(_, _, _, _)
DWLoop(st, sids, weights, caps) ==
    IF sids = <<>> THEN st
    ELSE DWLoop(DWAssign(st, Head(sids), weights, caps), Tail(sids), weights, caps)

\* The whole call: the list of id lists, one per process.
distribute_work(nproc, ids, weights, capacities) ==
    LET w == DefaultWeights(ids, weights)
        caps == DefaultCapacities(nproc, capacities)
    IN  DWLoop(DWInitProcs(nproc, caps), SortByWeightDesc(ids, w), w, caps).dist

\* The lists of k distinct unit ids, in ascending and in descending order.
IdLists(k) == {[i \in 1..k |-> i], [i \in 1..k |-> k + 1 - i]}

\* The calls with a valid configuration on n processes and k work units: a
\* weight for every id, when weights are given, and one positive capacity
\* per process, when capacities are given.
DWArgSets(n, k) ==
    {[nproc |-> n, ids |-> ids, weights |-> w, capacities |-> c] :
        ids \in IdLists(k),
        w \in {NoneVal} \cup {Some(f) : f \in [1..k -> 0..MaxWeight]},
        c \in {NoneVal} \cup {Some(f) : f \in [1..n -> 1..MaxCapacity]}}

\* The calls with every weight left at its default, on more units and over
\* a wider range of capacities.
MaxUniformUnits == 6
MaxUniformCapacity == 3
DWUniformArgSets ==
    UNION {{[nproc |-> n, ids |-> [i \in 1..k |-> i], weights |-> NoneVal, capacities |-> c] :
                c \in {NoneVal} \cup {Some(f) : f \in [1..n -> 1..MaxUniformCapacity]}} :
           n \in 1..MaxProc, k \in 0..MaxUniformUnits}

\* The three calls of test_distribute_work: ids 0..3 on two processes, with
\* the defaults, with the weights [3, 1, 1, 1], and with the capacities
\* [1, 3].
DWTestCalls ==
    {[nproc |-> 2, ids |-> <<0, 1, 2, 3>>, weights |-> NoneVal, capacities |-> NoneVal],
     [nproc |-> 2, ids |-> <<0, 1, 2, 3>>,
      weights |-> Some([x \in 0..3 |-> IF x = 0 THEN 3 ELSE 1]), capacities |-> NoneVal],
     [nproc |-> 2, ids |-> <<0, 1, 2, 3>>, weights |-> NoneVal, capacities |-> Some(<<1, 3>>)]}

\* The calls with an invalid configuration: no process at all; a capacity
\* that is zero or negative; weights that lack the last id.
DWInvalidArgSets ==
    UNION {{[nproc |-> 0, ids |-> ids, weights |-> NoneVal, capacities |-> NoneVal] :
                ids \in IdLists(k)} \cup
           UNION {{[nproc |-> n, ids |-> ids, weights |-> NoneVal, capacities |-> Some(f)] :
                      ids \in IdLists(k),
                      f \in {g \in [1..n -> -1..MaxCapacity] : \E i \in 1..n : g[i] <= 0}} \cup
                  {[nproc |-> n, ids |-> ids, weights |-> Some(f), capacities |-> NoneVal] :
                      ids \in IdLists(k),
                      f \in IF k = 0 THEN {} ELSE [1..(k - 1) -> 1..MaxWeight]} :
                  n \in 1..MaxProc} :
           k \in 0..MaxUnits}

\* weights[x] of line 197 fails for an id without weight.
DWMissingWeight(ids, weights) ==
    weights # NoneVal /\ \E x \in Range(ids) : x \notin DOMAIN weights[1]

dwWeights == DefaultWeights(dwArgs.ids, dwArgs.weights)
dwCaps == DefaultCapacities(dwArgs.nproc, dwArgs.capacities)

\* Lines 194-208: the defaults, the sort and the empty lists.  The sort
\* raises KeyError when an id has no weight.
DWSetup ==
    /\ dwPc = "call"
    /\ IF DWMissingWeight(dwArgs.ids, dwArgs.weights)
       THEN /\ dwPc' = "raised"
            /\ UNCHANGED <<dwSids, dwProcs, dwPos>>
       ELSE /\ dwSids' = SortByWeightDesc(dwArgs.ids, dwWeights)
            /\ dwProcs' = DWInitProcs(dwArgs.nproc, dwCaps)
            /\ dwPos' = 1
            /\ dwPc' = "loop"
    /\ UNCHANGED <<gpuVars, dwArgs, scanVars, fitVars>>

\* min() of line 213 raises ValueError on an empty list of processes, and
\* its key raises ZeroDivisionError on a capacity of 0.
DWMinRaises(caps) == caps = <<>> \/ \E i \in DOMAIN caps : caps[i] = 0

\* Lines 210-217: one iteration of the loop over sids.
DWAssignUnit ==
    /\ dwPc = "loop"
    /\ dwPos <= Len(dwSids)
    /\ IF DWMinRaises(dwCaps)
       THEN /\ dwPc' = "raised"
            /\ UNCHANGED <<dwProcs, dwPos>>
       ELSE /\ dwProcs' = DWAssign(dwProcs, dwSids[dwPos], dwWeights, dwCaps)
            /\ dwPos' = dwPos + 1
            /\ dwPc' = dwPc
    /\ UNCHANGED <<gpuVars, dwArgs, dwSids, scanVars, fitVars>>

\* Line 219: return dist.
DWReturn ==
    /\ dwPc = "loop"
    /\ dwPos > Len(dwSids)
    /\ dwPc' = "done"
    /\ UNCHANGED <<gpuVars, dwArgs, dwSids, dwPos, dwProcs, scanVars, fitVars>>


(***************************************************************************)
(* The scan: zscan.calc_zchi2_targets.                                     *)
(*                                                                         *)
(* Ring mode (targets.comm is not None): every rank of the communicator    *)
(* runs calc_zchi2_targets on its local targets and rotates the template   *)
(* slices.  Pool mode (targets.comm is None): one process runs it and      *)
(* starts mp_procs child processes per template.                           *)
(***************************************************************************)
Ranks == 1..scanCfg.size
IsRing == scanCfg.mode = "ring"
IsPool == scanCfg.mode = "pool"
NTemplates == Len(scanCfg.nz)

\* t.comm is not None, for the templates of the scan.
TemplateComm == scanCfg.tcomm

\* targets.local_target_ids() and targets.local() of rank r.
LocalIds(r) == scanCfg.local[r]
TargetObj(tid) == [id |-> tid, zerow |-> tid \in scanCfg.zerow]
LocalTargets(r) == [i \in DOMAIN LocalIds(r) |-> TargetObj(LocalIds(r)[i])]

\* t.template.redshifts of template k: the grid, here its positions 1..nz.
Redshifts(k) == [i \in 1..scanCfg.nz[k] |-> i]

\* The ascending sequence of a finite set of integers: sorted(d.keys()).
RECURSIVE Sorted(_)
Sorted(S) ==
    IF S = {} THEN <<>>
    ELSE LET m == CHOOSE x \in S : \A y \in S : x <= y
         IN  <<m>> \o Sorted(S \ {m})

Min2(a, b) == IF a < b THEN a ELSE b

\* The DistributedTemplateSlice p of n: a contiguous range of the grid of nz
\* redshifts, the first nz % n slices one longer than the others.
SliceRedshifts(nz, n, p) ==
    LET base == nz \div n
        extra == nz % n
        first == (p - 1) * base + Min2(p - 1, extra) + 1
        len == base + (IF p <= extra THEN 1 ELSE 0)
    IN  [i \in 1..len |-> first + i - 1]

\* The slice resident on rank r when the scan of a template starts.
InitialSlice(r) == r

\* The rotation: rank r sends its slice to CycleDest and receives the slice
\* of CycleSource.
CycleDest(r, n) == IF r = 1 THEN n ELSE r - 1
CycleSource(r, n) == IF r = n THEN 1 ELSE r + 1

\* t.cycle() reports a full circuit when the slice received is the one the
\* rank started with.
CycleDone(r, received) == received = InitialSlice(r)

\* One entry of a result row: what it holds ("chi2", "coeff", "penalty" for a
\* value of the fit, "9e99" for the sentinel, "0" for a zero left in place),
\* the target whose spectra it was computed from, the template and the
\* redshift of the grid it stands for, and whether the fit ran with
\* use_gpu=True.
Entry(val, d, k, z, g) == [val |-> val, src |-> d, tmpl |-> k, z |-> z, gpu |-> g]

\* calc_zchi2_v3, one iteration of "for j in range(ntargets)" on the target
\* object tg and the redshifts zs of the resident slice: the three rows and
\* whether the iteration reaches progress.put.
FitTarget(tg, k, zs, use_gpu) ==
    IF tg.zerow
    THEN [zchi2 |-> [i \in DOMAIN zs |-> Entry("9e99", tg.id, k, zs[i], use_gpu)],
          zcoeff |-> [i \in DOMAIN zs |-> Entry("0", tg.id, k, zs[i], use_gpu)],
          penalty |-> [i \in DOMAIN zs |-> Entry("0", tg.id, k, zs[i], use_gpu)],
          reached |-> FALSE]
    ELSE [zchi2 |-> [i \in DOMAIN zs |-> Entry("chi2", tg.id, k, zs[i], use_gpu)],
          zcoeff |-> [i \in DOMAIN zs |-> Entry("coeff", tg.id, k, zs[i], use_gpu)],
          penalty |-> [i \in DOMAIN zs |-> Entry("penalty", tg.id, k, zs[i], use_gpu)],
          reached |-> TRUE]

\* calc_zchi2(target_ids, target_data, t): row j is computed from
\* target_data[j], for j in range(len(target_ids)).
calc_zchi2(target_ids, target_data, k, zs, use_gpu) ==
    [j \in DOMAIN target_ids |-> FitTarget(target_data[j], k, zs, use_gpu)]

\* Line 348: use_gpu=False when the caller does not give it.
UseGpuDefault == FALSE

\* d[key] = v on a dictionary d.
DictSet(d, key, v) == [x \in DOMAIN d \cup {key} |-> IF x = key THEN v ELSE d[x]]

\* The empty dictionary.  A dictionary of zchi2, zcoeff or penalty maps a
\* target id to [slices |-> d], d the rows by slice index, while the slices
\* are collected, and to [vec |-> row] once the target has its full row.
EmptyDict == [x \in {} |-> 0]
EmptyAcc == [zchi2 |-> EmptyDict, zcoeff |-> EmptyDict, penalty |-> EmptyDict]

\* A variant of the iteration below: the rows stored under a fixed index
\* instead of t.local.index.
RingSaveOneMutFixedIndex(a, tid, idx, row) ==
    LET a1 == IF tid \notin DOMAIN a.zchi2
              THEN [zchi2 |-> DictSet(a.zchi2, tid, [slices |-> EmptyDict]),
                    zcoeff |-> DictSet(a.zcoeff, tid, [slices |-> EmptyDict]),
                    penalty |-> DictSet(a.penalty, tid, [slices |-> EmptyDict])]
              ELSE a
    IN  [zchi2 |-> DictSet(a1.zchi2, tid,
                       [slices |-> DictSet(a1.zchi2[tid].slices, 1, row.zchi2)]),
         zcoeff |-> DictSet(a1.zcoeff, tid,
                       [slices |-> DictSet(a1.zcoeff[tid].slices, 1, row.zcoeff)]),
         penalty |-> DictSet(a1.penalty, tid,
                       [slices |-> DictSet(a1.penalty[tid].slices, 1, row.penalty)])]

\* Lines 1530-1537, one iteration: the rows of target tid stored under the
\* index of the resident slice.
RingSaveOne(a, tid, idx, row) ==
    LET a1 == IF tid \notin DOMAIN a.zchi2
              THEN [zchi2 |-> DictSet(a.zchi2, tid, [slices |-> EmptyDict]),
                    zcoeff |-> DictSet(a.zcoeff, tid, [slices |-> EmptyDict]),
                    penalty |-> DictSet(a.penalty, tid, [slices |-> EmptyDict])]
              ELSE a
    IN  [zchi2 |-> DictSet(a1.zchi2, tid,
                       [slices |-> DictSet(a1.zchi2[tid].slices, idx, row.zchi2)]),
         zcoeff |-> DictSet(a1.zcoeff, tid,
                       [slices |-> DictSet(a1.zcoeff[tid].slices, idx, row.zcoeff)]),
         penalty |-> DictSet(a1.penalty, tid,
                       [slices |-> DictSet(a1.penalty[tid].slices, idx, row.penalty)])]

\* Lines 1529-1537: "for i, tid in enumerate(tids)".
RECURSIVE RingSave(_, _, _, _, _)
RingSave(a, tids, idx, rows, i) ==
    IF i > Len(tids) THEN a
    ELSE RingSave(RingSaveOne(a, tids[i], idx, rows[i]), tids, idx, rows, i + 1)

\* np.concatenate([ d[p] for p in sorted(d.keys()) ]).
RECURSIVE ConcatKeys(_, _)
ConcatKeys(d, keys) ==
    IF keys = <<>> THEN <<>> ELSE d[Head(keys)] \o ConcatKeys(d, Tail(keys))

RECURSIVE SortedDesc(_)
SortedDesc(S) ==
    IF S = {} THEN <<>>
    ELSE LET m == CHOOSE x \in S : \A y \in S : x >= y
         IN  <<m>> \o SortedDesc(S \ {m})

\* A variant of the concatenation below: the keys in descending order.
ConcatSlicesMutDescending(d) == ConcatKeys(d, SortedDesc(DOMAIN d))

\* Lines 1552-1554: the slices of one target concatenated by ascending key.
ConcatSlices(d) == ConcatKeys(d, Sorted(DOMAIN d))

\* Lines 1551-1554: every target's slices concatenated, in the three dictionaries.
RingConcatAll(a) ==
    [zchi2 |-> [tid \in DOMAIN a.zchi2 |-> [vec |-> ConcatSlices(a.zchi2[tid].slices)]],
     zcoeff |-> [tid \in DOMAIN a.zchi2 |-> [vec |-> ConcatSlices(a.zcoeff[tid].slices)]],
     penalty |-> [tid \in DOMAIN a.zchi2 |-> [vec |-> ConcatSlices(a.penalty[tid].slices)]]]

\* Lines 1613-1618: the record of template k written for every target of zchi2.
StoredResults(res, a, k) ==
    [tid \in DOMAIN res |->
        IF tid \in DOMAIN a.zchi2
        THEN DictSet(res[tid], k, [redshifts |-> Redshifts(k),
                                   zchi2 |-> a.zchi2[tid].vec,
                                   penalty |-> a.penalty[tid].vec,
                                   zcoeff |-> a.zcoeff[tid].vec])
        ELSE res[tid]]

\* Lines 1507-1512: prog_chunk for a communicator of size n.
ProgChunkDefault == 10
RingProgChunk(n) == IF n < ProgChunkDefault THEN 100 \div n ELSE ProgChunkDefault

\* Line 1539: int(100.0 * prog * mpi_prog_frac), mpi_prog_frac = 1.0 / size.
RingPrg(p, n) == (100 * p) \div n

\* targets.distribute_targets(targets, nproc): the targets are distributed
\* with distribute_work, with uniform weights.
distribute_targets(targets, nproc) ==
    distribute_work(nproc, [i \in DOMAIN targets |-> targets[i].id], NoneVal, NoneVal)

\* am_root, lines 1453-1457: no communicator, or rank 0 (the first rank).
AmRoot(r) == IsPool \/ r = 1

\* Lines 1516-1522: done starts True on a rank without local targets.
RingStartsDone(ntargets) == ntargets = 0

\* A variant of the loop test below: the loop is left after any pass.
RingLoopExitsMutFirstPass(done) == TRUE

\* Line 1523, "while not done": the loop is left when done is True.
RingLoopExits(done) == done

\* A variant of the selection below: the targets selected are listed from
\* the last local target to the first.
PoolTargetDataMutReversed(locals, ids) ==
    LET keep == Sorted({i \in DOMAIN locals : locals[i].id \in Range(ids)})
        n == Len(keep)
    IN  [j \in 1..n |-> locals[keep[n + 1 - j]]]

\* A variant of the selection below: every process is given all the local
\* targets.
PoolTargetDataMutAll(locals, ids) == locals

\* Line 1575: [ x for x in targets.local() if x.id in mpdist[i] ].
PoolTargetData(locals, ids) ==
    LET Keep(x) == x.id \in Range(ids) IN SelectSeq(locals, Keep)

NoChild == [pc |-> "none", j |-> 0, ids |-> <<>>, data |-> <<>>, rows |-> <<>>]

OwnerLocals(n, nt, owner) == [r \in 1..n |-> Sorted({t \in 1..nt : owner[t] = r})]

\* The redshift grid lengths of the templates of a scan: the first template
\* has z redshifts and every further template one more, starting again from
\* one after MaxNz, so that the templates of a scan differ in length.
GridSets ==
    {[i \in 1..k |-> ((z + i - 2) % MaxNz) + 1] : k \in 1..MaxTemplates, z \in 1..MaxNz}

\* Ring mode: the targets have a communicator of n ranks, each target local
\* to one rank.  tcomm tells whether the templates have a communicator
\* (t.comm is not None); when they have one it is that of the targets.  The
\* templates without communicator are given to a communicator of one rank,
\* and use_gpu is varied on the communicator of one rank.
RingConfigsAll ==
    UNION {{[mode |-> "ring", size |-> n, mp_procs |-> 1, tcomm |-> tc, use_gpu |-> ug,
             local |-> OwnerLocals(n, nt, owner), zerow |-> Z, nz |-> g] :
                owner \in [1..nt -> 1..n], Z \in SUBSET (1..nt), g \in GridSets,
                tc \in IF n = 1 THEN BOOLEAN ELSE {TRUE},
                ug \in IF n = 1 THEN BOOLEAN ELSE {FALSE}} :
           n \in 1..MaxRanks, nt \in 0..MaxTargets}

\* The scans of ring mode called without use_gpu.
RingConfigs == {c \in RingConfigsAll : ~c.use_gpu}

\* Pool mode: the targets have no communicator and are all local to the one
\* process.  The templates have none either, or, on one template, a
\* communicator of one rank.
PoolConfigsAll ==
    UNION {{[mode |-> "pool", size |-> 1, mp_procs |-> m, tcomm |-> tc, use_gpu |-> ug,
             local |-> <<[i \in 1..nt |-> i]>>, zerow |-> Z, nz |-> g] :
                m \in 1..MaxRanks, Z \in SUBSET (1..nt),
                g \in GridSets, tc \in BOOLEAN, ug \in BOOLEAN} :
           nt \in 0..MaxTargets}

PoolConfigs == {c \in PoolConfigsAll : ~c.use_gpu /\ (c.tcomm => Len(c.nz) = 1)}

\* Pool mode on templates without communicator, the scan called with
\* use_gpu False or True.
PoolGpuConfigs == {c \in PoolConfigsAll : ~c.tcomm}

\* The state of a scan before its first step.
ScanRest ==
    /\ pc = [r \in Ranks |-> "init"]
    /\ ti = [r \in Ranks |-> 0]
    /\ results = [r \in Ranks |-> EmptyDict]
    /\ acc = [r \in Ranks |-> EmptyAcc]
    /\ tlocal = [r \in Ranks |-> InitialSlice(r)]
    /\ chan = [r \in Ranks |-> <<>>]
    /\ prog = [r \in Ranks |-> 0]
    /\ proglast = [r \in Ranks |-> 0]
    /\ emitted = [r \in Ranks |-> <<>>]
    /\ mpdist = <<>>
    /\ procs = {}
    /\ child = [i \in 1..scanCfg.mp_procs |-> NoChild]
    /\ qout = <<>>
    /\ qprog = <<>>
    /\ tot = 0
    /\ progincr = 0
    /\ nrecv = 0
    /\ fits = EmptyBag
    /\ nput = 0

InitScan ==
    /\ scanCfg \in RingConfigs \cup PoolConfigs
    /\ ScanRest

\* Lines 1453-1470: am_root, the distribution of the targets over the pool
\* (only without communicator) and the empty results of the local targets.
ScanStart(r) ==
    /\ pc[r] = "init"
    /\ mpdist' = IF IsPool THEN distribute_targets(LocalTargets(r), scanCfg.mp_procs)
                 ELSE mpdist
    /\ results' = [results EXCEPT ![r] = [tid \in Range(LocalIds(r)) |-> EmptyDict]]
    /\ ti' = [ti EXCEPT ![r] = 1]
    /\ pc' = [pc EXCEPT ![r] = "tmpl"]
    /\ UNCHANGED <<gpuVars, dwVars, fitVars, nput, scanCfg, acc, tlocal, chan, prog, proglast, emitted, procs, child,
                   qout, qprog, tot, progincr, nrecv, fits>>

\* A variant of the step below: the scan returns after any template.
ScanReturnMutAnyTemplate(r) ==
    /\ pc[r] = "tmpl"
    /\ pc' = [pc EXCEPT ![r] = "done"]
    /\ UNCHANGED <<gpuVars, dwVars, fitVars, nput, scanCfg, ti, results, acc, tlocal, chan, prog, proglast, emitted,
                   mpdist, procs, child, qout, qprog, tot, progincr, nrecv, fits>>

\* Line 1620: the loop over the templates is exhausted, return results.
ScanReturn(r) ==
    /\ pc[r] = "tmpl"
    /\ ti[r] > NTemplates
    /\ pc' = [pc EXCEPT ![r] = "done"]
    /\ UNCHANGED <<gpuVars, dwVars, fitVars, nput, scanCfg, ti, results, acc, tlocal, chan, prog, proglast, emitted,
                   mpdist, procs, child, qout, qprog, tot, progincr, nrecv, fits>>

\* Lines 1493-1523: ring mode, the start of the scan of template ti[r].
RingBegin(r) ==
    /\ IsRing
    /\ pc[r] = "tmpl"
    /\ ti[r] <= NTemplates
    /\ emitted' = [emitted EXCEPT ![r] = IF AmRoot(r) THEN <<0>> ELSE <<>>]
    /\ acc' = [acc EXCEPT ![r] = EmptyAcc]
    /\ proglast' = [proglast EXCEPT ![r] = 0]
    /\ prog' = [prog EXCEPT ![r] = 1]
    /\ pc' = [pc EXCEPT ![r] =
                IF RingLoopExits(RingStartsDone(Len(LocalIds(r)))) THEN "concat" ELSE "fit"]
    /\ UNCHANGED <<gpuVars, dwVars, fitVars, nput, scanCfg, ti, results, tlocal, chan, mpdist, procs, child,
                   qout, qprog, tot, progincr, nrecv, fits>>

\* calc_zchi2_v3 line 1124 under calc_zchi2 called without progress queue
\* (line 1526): on a template without communicator the first target with
\* weight reaches progress.put(1) with progress=None.
RingFitPuts(r) == ~TemplateComm /\ \E tid \in Range(LocalIds(r)) : tid \notin scanCfg.zerow

\* Lines 1524-1549: one pass of the while loop up to the exchange of
\* t.cycle(): the fit of the resident slice for all local targets, the rows
\* saved under the slice index, the progress line, and the resident slice
\* sent to the next rank.  A communicator of one rank has nothing to rotate
\* and t.cycle() returns True at once.  A put on progress=None raises
\* AttributeError out of calc_zchi2_targets.
RingFit(r) ==
    /\ pc[r] = "fit"
    /\ IF RingFitPuts(r)
       THEN /\ nput' = nput + 1
            /\ pc' = [pc EXCEPT ![r] = "raised"]
            /\ UNCHANGED <<acc, fits, proglast, emitted, prog, chan>>
       ELSE
         LET k == ti[r]
             n == scanCfg.size
             idx == tlocal[r]
             rows == calc_zchi2(LocalIds(r), LocalTargets(r), k,
                                SliceRedshifts(scanCfg.nz[k], n, idx), scanCfg.use_gpu)
             chunk == IF TemplateComm THEN RingProgChunk(n) ELSE ProgChunkDefault
             prg == IF TemplateComm THEN RingPrg(prog[r], n) ELSE 100 * prog[r]
             step == prg >= proglast[r] + chunk
         IN  /\ acc' = [acc EXCEPT ![r] = RingSave(@, LocalIds(r), idx, rows, 1)]
             /\ fits' = fits (+) SetToBag({<<r, k, tid, idx>> : tid \in Range(LocalIds(r))})
             /\ proglast' = [proglast EXCEPT ![r] = IF step THEN @ + chunk ELSE @]
             /\ emitted' = [emitted EXCEPT ![r] =
                              IF step /\ AmRoot(r) /\ TemplateComm
                              THEN Append(@, proglast[r] + chunk) ELSE @]
             /\ prog' = [prog EXCEPT ![r] = @ + 1]
             /\ nput' = nput
             /\ IF n = 1
                THEN /\ pc' = [pc EXCEPT ![r] = IF RingLoopExits(TRUE) THEN "concat" ELSE "fit"]
                     /\ chan' = chan
                ELSE /\ pc' = [pc EXCEPT ![r] = "recv"]
                     /\ chan' = [chan EXCEPT ![CycleDest(r, n)] =
                                  Append(@, [tmpl |-> k, index |-> idx])]
    /\ UNCHANGED <<gpuVars, dwVars, fitVars, scanCfg, ti, results, tlocal, mpdist, procs, child,
                   qout, qprog, tot, progincr, nrecv>>

\* A variant of the step below: the slice that arrives is dropped and the
\* rank keeps the slice it had.
RingRecvMutKeepsSlice(r) ==
    /\ pc[r] = "recv"
    /\ chan[r] # <<>>
    /\ pc' = [pc EXCEPT ![r] =
                IF RingLoopExits(CycleDone(r, Head(chan[r]).index)) THEN "concat" ELSE "fit"]
    /\ chan' = [chan EXCEPT ![r] = Tail(@)]
    /\ UNCHANGED <<gpuVars, dwVars, fitVars, nput, scanCfg, ti, results, acc, tlocal, prog, proglast, emitted, mpdist, procs,
                   child, qout, qprog, tot, progincr, nrecv, fits>>

\* Line 1549, the second half of t.cycle(): the rank is blocked until the
\* slice of the previous rank arrives; the slice received replaces the
\* resident one.
RingRecv(r) ==
    /\ pc[r] = "recv"
    /\ chan[r] # <<>>
    /\ LET msg == Head(chan[r])
       IN  /\ tlocal' = [tlocal EXCEPT ![r] = msg.index]
           /\ pc' = [pc EXCEPT ![r] =
                        IF RingLoopExits(CycleDone(r, msg.index)) THEN "concat" ELSE "fit"]
    /\ chan' = [chan EXCEPT ![r] = Tail(@)]
    /\ UNCHANGED <<gpuVars, dwVars, fitVars, nput, scanCfg, ti, results, acc, prog, proglast, emitted, mpdist, procs,
                   child, qout, qprog, tot, progincr, nrecv, fits>>

\* Lines 1551-1554: the slices of every target concatenated.
RingConcat(r) ==
    /\ pc[r] = "concat"
    /\ acc' = [acc EXCEPT ![r] = RingConcatAll(@)]
    /\ pc' = [pc EXCEPT ![r] = "store"]
    /\ UNCHANGED <<gpuVars, dwVars, fitVars, nput, scanCfg, ti, results, tlocal, chan, prog, proglast, emitted, mpdist,
                   procs, child, qout, qprog, tot, progincr, nrecv, fits>>

\* Lines 1611-1618: the record of the template written into results; then
\* the next template.
StoreResults(r) ==
    /\ pc[r] = "store"
    /\ results' = [results EXCEPT ![r] = StoredResults(@, acc[r], ti[r])]
    /\ ti' = [ti EXCEPT ![r] = @ + 1]
    /\ pc' = [pc EXCEPT ![r] = "tmpl"]
    /\ UNCHANGED <<gpuVars, dwVars, fitVars, nput, scanCfg, acc, tlocal, chan, prog, proglast, emitted, mpdist,
                   procs, child, qout, qprog, tot, progincr, nrecv, fits>>

\* Lines 1586-1587: progincr; int(100.0 / ntarget) when mp_procs > ntarget.
PoolProgIncr(mp_procs, ntarget) ==
    IF mp_procs > ntarget THEN 100 \div ntarget ELSE ProgChunkDefault

\* Lines 1556-1589: pool mode, the start of the scan of template ti[r]: new
\* queues, one process per non-empty assignment, the progress variables.
\* With no local target int(100.0 / ntarget) raises ZeroDivisionError.
PoolSpawn(r) ==
    /\ IsPool
    /\ pc[r] = "tmpl"
    /\ ti[r] <= NTemplates
    /\ LET ntarget == Len(LocalIds(r))
           started == {i \in 1..scanCfg.mp_procs : Len(mpdist[i]) # 0}
       IN  /\ procs' = started
           /\ child' = [i \in 1..scanCfg.mp_procs |->
                          IF i \in started
                          THEN [pc |-> "run", j |-> 1, ids |-> mpdist[i],
                                data |-> PoolTargetData(LocalTargets(r), mpdist[i]),
                                rows |-> <<>>]
                          ELSE NoChild]
           /\ IF scanCfg.mp_procs > ntarget /\ ntarget = 0
              THEN /\ pc' = [pc EXCEPT ![r] = "raised"]
                   /\ progincr' = progincr
              ELSE /\ pc' = [pc EXCEPT ![r] = "progress"]
                   /\ progincr' = PoolProgIncr(scanCfg.mp_procs, ntarget)
    /\ qout' = <<>>
    /\ qprog' = <<>>
    /\ emitted' = [emitted EXCEPT ![r] = <<0>>]
    /\ acc' = [acc EXCEPT ![r] = EmptyAcc]
    /\ tot' = 0
    /\ proglast' = [proglast EXCEPT ![r] = 0]
    /\ nrecv' = 0
    /\ UNCHANGED <<gpuVars, dwVars, fitVars, nput, scanCfg, ti, results, tlocal, chan, prog, mpdist, fits>>

\* A variant of the step below: the process is given the use_gpu of the
\* scan.
ChildFitMutForwardsGpu(i) ==
    /\ child[i].pc = "run"
    /\ child[i].j <= Len(child[i].ids)
    /\ LET k == ti[1]
           tg == child[i].data[child[i].j]
           row == FitTarget(tg, k, Redshifts(k), scanCfg.use_gpu)
           puts == row.reached /\ ~TemplateComm
       IN  /\ child' = [child EXCEPT ![i].rows = Append(@, row), ![i].j = @ + 1]
           /\ qprog' = IF puts THEN Append(qprog, 1) ELSE qprog
           /\ nput' = IF puts THEN nput + 1 ELSE nput
           /\ fits' = fits (+) SetToBag({<<i, k, tg.id, 0>>})
    /\ UNCHANGED <<gpuVars, dwVars, fitVars, scanCfg, pc, ti, results, acc, tlocal, chan, prog, proglast, emitted,
                   mpdist, procs, qout, tot, progincr, nrecv>>

\* _mp_calc_zchi2 and calc_zchi2_v3 lines 1100-1125 in child process i: one
\* iteration of the loop over its targets, on the full grid of the template.
\* An iteration that ends in "continue" does not reach line 1124, and
\* progress.put(1) is called there only on a template without communicator.
\* Line 1417 calls calc_zchi2 without use_gpu.
ChildFit(i) ==
    /\ child[i].pc = "run"
    /\ child[i].j <= Len(child[i].ids)
    /\ LET k == ti[1]
           tg == child[i].data[child[i].j]
           row == FitTarget(tg, k, Redshifts(k), UseGpuDefault)
           puts == row.reached /\ ~TemplateComm
       IN  /\ child' = [child EXCEPT ![i].rows = Append(@, row), ![i].j = @ + 1]
           /\ qprog' = IF puts THEN Append(qprog, 1) ELSE qprog
           /\ nput' = IF puts THEN nput + 1 ELSE nput
           /\ fits' = fits (+) SetToBag({<<i, k, tg.id, 0>>})
    /\ UNCHANGED <<gpuVars, dwVars, fitVars, scanCfg, pc, ti, results, acc, tlocal, chan, prog, proglast, emitted,
                   mpdist, procs, qout, tot, progincr, nrecv>>

\* _mp_calc_zchi2 line 1419: the rows of the process put on the result queue.
ChildPut(i) ==
    /\ child[i].pc = "run"
    /\ child[i].j > Len(child[i].ids)
    /\ qout' = Append(qout, [indx |-> i, rows |-> child[i].rows])
    /\ child' = [child EXCEPT ![i].pc = "exit"]
    /\ UNCHANGED <<gpuVars, dwVars, fitVars, nput, scanCfg, pc, ti, results, acc, tlocal, chan, prog, proglast, emitted,
                   mpdist, procs, qprog, tot, progincr, nrecv, fits>>

\* A variant of the step below: the process that caught an exception still
\* puts the rows it has on the result queue.
ChildRaiseMutPutsResult(i) ==
    /\ child[i].pc = "run"
    /\ qout' = Append(qout, [indx |-> i, rows |-> child[i].rows])
    /\ child' = [child EXCEPT ![i].pc = "failed"]
    /\ UNCHANGED <<gpuVars, dwVars, fitVars, nput, scanCfg, pc, ti, results, acc, tlocal, chan, prog,
                   proglast, emitted, mpdist, procs, qprog, tot, progincr, nrecv, fits>>

\* _mp_calc_zchi2 lines 1420-1425: an exception in the process is caught and
\* printed; nothing is put on the result queue.
ChildRaise(i) ==
    /\ child[i].pc = "run"
    /\ child' = [child EXCEPT ![i].pc = "failed"]
    /\ UNCHANGED <<gpuVars, dwVars, fitVars, nput, scanCfg, pc, ti, results, acc, tlocal, chan, prog, proglast, emitted,
                   mpdist, procs, qout, qprog, tot, progincr, nrecv, fits>>

\* A variant of the pass below: the coordinator does not wait for a count
\* and counts one target at every pass.
PoolProgressMutNoWait(r) ==
    /\ pc[r] = "progress"
    /\ LET ntarget == Len(LocalIds(r))
           t2 == tot + 1
           step == (100 * t2) \div ntarget >= proglast[r] + progincr
       IN  /\ tot' = t2
           /\ proglast' = [proglast EXCEPT ![r] = IF step THEN @ + progincr ELSE @]
           /\ emitted' = [emitted EXCEPT ![r] =
                            IF step THEN Append(@, proglast[r] + progincr) ELSE @]
           /\ pc' = [pc EXCEPT ![r] = IF t2 < ntarget THEN "progress" ELSE "collect"]
    /\ UNCHANGED <<gpuVars, dwVars, fitVars, nput, scanCfg, ti, results, acc, tlocal, chan, prog, mpdist, procs, child,
                   qout, qprog, progincr, nrecv, fits>>

\* Lines 1590-1597: one pass of "while (tot < ntarget)", blocked in
\* qprog.get() until a count arrives.
PoolProgress(r) ==
    /\ pc[r] = "progress"
    /\ qprog # <<>>
    /\ LET ntarget == Len(LocalIds(r))
           t2 == tot + Head(qprog)
           step == (100 * t2) \div ntarget >= proglast[r] + progincr
       IN  /\ tot' = t2
           /\ proglast' = [proglast EXCEPT ![r] = IF step THEN @ + progincr ELSE @]
           /\ emitted' = [emitted EXCEPT ![r] =
                            IF step THEN Append(@, proglast[r] + progincr) ELSE @]
           /\ pc' = [pc EXCEPT ![r] = IF t2 < ntarget THEN "progress" ELSE "collect"]
    /\ qprog' = Tail(qprog)
    /\ UNCHANGED <<gpuVars, dwVars, fitVars, nput, scanCfg, ti, results, acc, tlocal, chan, prog, mpdist, procs, child,
                   qout, progincr, nrecv, fits>>

\* Lines 1605-1609: the rows of one result stored under the ids of mpdist.
RECURSIVE PoolSave(_, _, _, _)
PoolSave(a, tids, rows, j) ==
    IF j > Len(tids) THEN a
    ELSE PoolSave([zchi2 |-> DictSet(a.zchi2, tids[j], [vec |-> rows[j].zchi2]),
                   zcoeff |-> DictSet(a.zcoeff, tids[j], [vec |-> rows[j].zcoeff]),
                   penalty |-> DictSet(a.penalty, tids[j], [vec |-> rows[j].penalty])],
                  tids, rows, j + 1)

\* Lines 1603-1609: one pass of "for _ in range(len(procs))", blocked in
\* qout.get() until a result arrives.
PoolCollect(r) ==
    /\ pc[r] = "collect"
    /\ qout # <<>>
    /\ LET res == Head(qout)
       IN  acc' = [acc EXCEPT ![r] = PoolSave(@, mpdist[res.indx], res.rows, 1)]
    /\ qout' = Tail(qout)
    /\ nrecv' = nrecv + 1
    /\ pc' = [pc EXCEPT ![r] = IF nrecv + 1 < Cardinality(procs) THEN "collect" ELSE "store"]
    /\ UNCHANGED <<gpuVars, dwVars, fitVars, nput, scanCfg, ti, results, tlocal, chan, prog, proglast, emitted, mpdist,
                   procs, child, qprog, tot, progincr, fits>>

Children == DOMAIN child

(***************************************************************************)
(* The progress loop of pool mode on its own, lines 1581-1597, for scans   *)
(* of many targets: the processes are reduced to the counts they put on    *)
(* the progress queue, one per target, all targets having weight.          *)
(***************************************************************************)
MaxProgTargets == 101   \* largest number of local targets of such a scan
MaxQueued == 1          \* most counts waiting on the progress queue

\* The scans: fewer processes than targets, or more.
ProgressConfigs ==
    {[mode |-> "pool", size |-> 1, mp_procs |-> m, tcomm |-> FALSE, use_gpu |-> FALSE,
      local |-> <<[i \in 1..nt |-> i]>>, zerow |-> {}, nz |-> <<1>>] :
        nt \in 1..MaxProgTargets, m \in {1, MaxProgTargets + 1}}

\* Lines 1581-1589: the first progress line and the progress variables.
ProgressBegin ==
    /\ pc[1] = "spawned"
    /\ emitted' = [emitted EXCEPT ![1] = <<0>>]
    /\ progincr' = PoolProgIncr(scanCfg.mp_procs, Len(LocalIds(1)))
    /\ tot' = 0
    /\ proglast' = [proglast EXCEPT ![1] = 0]
    /\ pc' = [pc EXCEPT ![1] = "progress"]
    /\ UNCHANGED <<gpuVars, dwVars, fitVars, nput, scanCfg, ti, results, acc, tlocal, chan, prog, mpdist,
                   procs, child, qout, qprog, nrecv, fits>>

\* Line 1125 in some process: progress.put(1) for one more target.
CountArrives ==
    /\ pc[1] \in {"spawned", "progress"}
    /\ nput < Len(LocalIds(1))
    /\ Len(qprog) < MaxQueued
    /\ qprog' = Append(qprog, 1)
    /\ nput' = nput + 1
    /\ UNCHANGED <<gpuVars, dwVars, fitVars, scanCfg, pc, ti, results, acc, tlocal, chan, prog, proglast,
                   emitted, mpdist, procs, child, qout, tot, progincr, nrecv, fits>>

Next ==
    \/ \E r \in Ranks : ScanStart(r)
    \/ \E r \in Ranks : ScanReturn(r)
    \/ \E r \in Ranks : RingBegin(r)
    \/ \E r \in Ranks : RingFit(r)
    \/ \E r \in Ranks : RingRecv(r)
    \/ \E r \in Ranks : RingConcat(r)
    \/ \E r \in Ranks : StoreResults(r)
    \/ \E r \in Ranks : PoolSpawn(r)
    \/ \E r \in Ranks : PoolProgress(r)
    \/ \E r \in Ranks : PoolCollect(r)
    \/ \E i \in Children : ChildFit(i)
    \/ \E i \in Children : ChildPut(i)
    \/ \E i \in Children : ChildRaise(i)

(***************************************************************************)
(* The fit: zscan.calc_zchi2_v3 and calc_zchi2_batch_v3.                   *)
(*                                                                         *)
(* Numbers are exact rationals [n |-> numerator, d |-> denominator] in     *)
(* lowest terms with d > 0.  Two values are not rationals: the sentinel    *)
(* 9e99 and NaN, the not-a-number of an undefined floating operation.      *)
(***************************************************************************)
Abs(x) == IF x < 0 THEN -x ELSE x

\* The array f with every element computed, once.
Evaluated(f) == IF f = f THEN f ELSE f

RECURSIVE GCD(_, _)
GCD(a, b) == IF b = 0 THEN a ELSE GCD(b, a % b)

\* The rational n/d, d # 0.
Rat(n, d) ==
    LET g == GCD(Abs(n), Abs(d))
        s == IF d < 0 THEN -1 ELSE 1
    IN  [n |-> s * (n \div g), d |-> s * (d \div g)]

Num(i) == [n |-> i, d |-> 1]
Zero == Num(0)
Sentinel9e99 == [big |-> "9e99"]
NaN == [nan |-> TRUE]

IsNaN(x) == x = NaN
VAdd(x, y) == IF IsNaN(x) \/ IsNaN(y) THEN NaN ELSE Rat(x.n * y.d + y.n * x.d, x.d * y.d)
VSub(x, y) == IF IsNaN(x) \/ IsNaN(y) THEN NaN ELSE Rat(x.n * y.d - y.n * x.d, x.d * y.d)
VMul(x, y) == IF IsNaN(x) \/ IsNaN(y) THEN NaN ELSE Rat(x.n * y.n, x.d * y.d)
VNeg(x) == IF IsNaN(x) THEN NaN ELSE [n |-> -x.n, d |-> x.d]
\* x < 0; a comparison with NaN is False.
VNegative(x) == ~IsNaN(x) /\ x.n < 0

\* The sum of the values f[x], x in the finite set S of integers, taken in
\* ascending order.
RECURSIVE VSum(_, _)
VSum(S, f) ==
    IF S = {} THEN Zero
    ELSE LET x == CHOOSE y \in S : \A z \in S : y <= z
         IN  VAdd(f[x], VSum(S \ {x}, f))

\* The sum of the integers f[lo], ..., f[hi].
RECURSIVE ISum(_, _, _)
ISum(lo, hi, f) == IF lo > hi THEN 0 ELSE f[lo] + ISum(lo + 1, hi, f)

\* The sum of the values f[lo], ..., f[hi], in this order.
RECURSIVE VSumRange(_, _, _)
VSumRange(lo, hi, f) == IF lo > hi THEN Zero ELSE VAdd(f[lo], VSumRange(lo + 1, hi, f))

(***************************************************************************)
(* spectral_data and the sparse resampling matrices.                       *)
(* A spectrum is [ivar, flux, Rcsr, wavehash]; Rcsr is a matrix in CSR     *)
(* form, [data, indices, indptr, shape], with 0-based column indices.      *)
(***************************************************************************)
\* np.concatenate over the spectra, in order.
ConcatField(spectra, fld) == Flatten([s \in DOMAIN spectra |-> spectra[s][fld]])

\* A variant of the function below: the flux is concatenated from the last
\* band to the first.
spectral_dataMutFluxReversed(spectra) ==
    LET weights == ConcatField(spectra, "ivar")
        n == Len(spectra)
        flux == Flatten([s \in DOMAIN spectra |-> spectra[n + 1 - s].flux])
    IN  [weights |-> weights, flux |-> flux,
         wflux |-> [i \in DOMAIN weights |-> weights[i] * flux[i]]]

\* Lines 305-308.
spectral_data(spectra) ==
    LET weights == ConcatField(spectra, "ivar")
        flux == ConcatField(spectra, "flux")
    IN  [weights |-> weights, flux |-> flux,
         wflux |-> [i \in DOMAIN weights |-> weights[i] * flux[i]]]

\* Rcsr.dot(X) for a dense X with nb columns: row r of the product is the
\* sum over the stored entries of row r.
CsrDot(R, X, nb) ==
    [r \in 1..R.shape[1] |->
        [b \in 1..nb |->
            ISum(R.indptr[r] + 1, R.indptr[r + 1],
                 [j \in (R.indptr[r] + 1)..R.indptr[r + 1] |->
                    R.data[j] * X[R.indices[j] + 1][b]])]]

\* Lines 527-532, dot_product_sparse_one: np.vstack of Rcsr.dot(tdata[key]).
dot_product_sparse_one(spectra, td, nb) ==
    Flatten([s \in DOMAIN spectra |-> CsrDot(spectra[s].Rcsr, td[spectra[s].wavehash], nb)])

(***************************************************************************)
(* The linear solve M c = y in exact arithmetic, for one or two basis      *)
(* vectors.  np.linalg.solve raises LinAlgError on a singular M.           *)
(***************************************************************************)
Det(M, nb) == IF nb = 1 THEN M[1][1] ELSE M[1][1] * M[2][2] - M[1][2] * M[2][1]

IsSingular(M, nb) == Det(M, nb) = 0

SolveExact(M, y, nb) ==
    LET det == Det(M, nb)
    IN  IF nb = 1 THEN <<Rat(y[1], det)>>
        ELSE <<Rat(y[1] * M[2][2] - M[1][2] * y[2], det),
               Rat(M[1][1] * y[2] - M[2][1] * y[1], det)>>

ZeroVec(nb) == [b \in 1..nb |-> Zero]

(***************************************************************************)
(* calc_zchi2_batch_v3, CPU path: lines 1020-1047.                         *)
(***************************************************************************)
\* Line 1031: M = Tb.T.dot(np.multiply(weights[:,None], Tb)).
NormalM(Tb, weights, nb) ==
    [a \in 1..nb |-> [b \in 1..nb |->
        ISum(1, Len(Tb), [r \in DOMAIN Tb |-> Tb[r][a] * (weights[r] * Tb[r][b])])]]

\* Line 1032: y = Tb.T.dot(wflux).
NormalY(Tb, wflux, nb) ==
    [a \in 1..nb |-> ISum(1, Len(Tb), [r \in DOMAIN Tb |-> Tb[r][a] * wflux[r]])]

\* Lines 1043-1046: model = Tb.dot(zcoeff[i,:]) and
\* zchi2[i] = np.dot((flux - model)**2, weights).
Chi2Of(Tb, zc, weights, flux, nb) ==
    LET model == [r \in DOMAIN Tb |->
                    VSumRange(1, nb, [b \in 1..nb |-> VMul(Num(Tb[r][b]), zc[b])])]
    IN  VSumRange(1, Len(Tb), [r \in DOMAIN Tb |->
                LET res == VSub(Num(flux[r]), model[r])
                IN  VMul(VMul(res, res), Num(weights[r]))])

\* A variant of the pass below: the except clause sets nothing, and zchi2[i]
\* keeps its zero.
CpuOneMutNoCatch(spectra, td, sd, nb) ==
    LET Tb == Evaluated(dot_product_sparse_one(spectra, td, nb))
        M == Evaluated(NormalM(Tb, sd.weights, nb))
    IN  IF IsSingular(M, nb)
        THEN [zchi2 |-> Zero, zcoeff |-> ZeroVec(nb)]
        ELSE LET y == Evaluated(NormalY(Tb, sd.wflux, nb))
                 zc == Evaluated(SolveExact(M, y, nb))
             IN  [zchi2 |-> Chi2Of(Tb, zc, sd.weights, sd.flux, nb), zcoeff |-> zc]

\* One pass of "for i in range(nz)": the entry i of zchi2 and of zcoeff.  On
\* LinAlgError zchi2[i] = 9e99 and the loop continues; zcoeff[i] keeps the
\* zeros it was allocated with.
CpuOne(spectra, td, sd, nb) ==
    LET Tb == Evaluated(dot_product_sparse_one(spectra, td, nb))
        M == Evaluated(NormalM(Tb, sd.weights, nb))
    IN  IF IsSingular(M, nb)
        THEN [zchi2 |-> Sentinel9e99, zcoeff |-> ZeroVec(nb)]
        ELSE LET y == Evaluated(NormalY(Tb, sd.wflux, nb))
                 zc == Evaluated(SolveExact(M, y, nb))
             IN  [zchi2 |-> Chi2Of(Tb, zc, sd.weights, sd.flux, nb), zcoeff |-> zc]

\* A variant of the path below: every redshift is fitted on the template
\* data of the first one.
BatchCpuMutFirstRedshift(spectra, tdata, sd, nb) ==
    LET one == Evaluated([i \in DOMAIN tdata |-> CpuOne(spectra, tdata[1], sd, nb)])
    IN  [zchi2 |-> [i \in DOMAIN tdata |-> one[i].zchi2],
         zcoeff |-> [i \in DOMAIN tdata |-> one[i].zcoeff]]

\* The CPU path of calc_zchi2_batch_v3: (zchi2, zcoeff) over the grid.
BatchCpu(spectra, tdata, sd, nb) ==
    LET one == Evaluated([i \in DOMAIN tdata |-> CpuOne(spectra, tdata[i], sd, nb)])
    IN  [zchi2 |-> [i \in DOMAIN tdata |-> one[i].zchi2],
         zcoeff |-> [i \in DOMAIN tdata |-> one[i].zcoeff]]

(***************************************************************************)
(* The single-redshift kernel: _zchi2_one (lines 270-289) and              *)
(* calc_zchi2_one (lines 312-342).                                         *)
(***************************************************************************)
\* _zchi2_one(Tb, weights, flux, wflux, zcoeff): the chi2 returned and zcoeff
\* as the call leaves it; on LinAlgError 9e99 is returned and zcoeff is not
\* written.
zchi2_one(Tb, weights, flux, wflux, zcoeff) ==
    LET nb == Len(zcoeff)
        M == Evaluated(NormalM(Tb, weights, nb))
        y == Evaluated(NormalY(Tb, wflux, nb))
    IN  IF IsSingular(M, nb)
        THEN [zchi2 |-> Sentinel9e99, zcoeff |-> zcoeff]
        ELSE LET zc == Evaluated(SolveExact(M, y, nb))
             IN  [zchi2 |-> Chi2Of(Tb, zc, weights, flux, nb), zcoeff |-> zc]

\* calc_zchi2_one(spectra, weights, flux, wflux, tdata): nbasis is the number
\* of columns of the template data of the first spectrum, Tb the np.vstack
\* of s.Rcsr.dot(tdata[s.wavehash]), zcoeff starts as np.zeros(nbasis).
calc_zchi2_one(spectra, weights, flux, wflux, tdata) ==
    LET nbasis == Len(tdata[spectra[1].wavehash][1])
        Tb == Evaluated(Flatten([s \in DOMAIN spectra |->
                    CsrDot(spectra[s].Rcsr, tdata[spectra[s].wavehash], nbasis)]))
    IN  zchi2_one(Tb, weights, flux, wflux, ZeroVec(nbasis))

(***************************************************************************)
(* calc_zchi2_batch_v3, GPU path: lines 959-1019.  The device arrays are   *)
(* flat, in C order: a function on 0..n-1.                                 *)
(***************************************************************************)
BlockSize == 512
NParallelDefault == 64
NParallelManyZ == 4
ManyZ == 512

\* The flat form of an array of shape (n1, n2, n3), and back.
Ravel3(a, n1, n2, n3) ==
    Evaluated([i \in 0..(n1 * n2 * n3 - 1) |->
        a[(i \div (n2 * n3)) + 1][((i % (n2 * n3)) \div n3) + 1][(i % n3) + 1]])

Unravel3(f, n1, n2, n3) ==
    Evaluated([t \in 1..n1 |-> [r \in 1..n2 |-> [b \in 1..n3 |->
        f[(t - 1) * n2 * n3 + (r - 1) * n3 + (b - 1)]]]])

\* Lines 1093-1095: tdata[key] = cp.array([tdata[key] for tdata in local.data]).
GpuTdata(tdata, key) == Evaluated([t \in DOMAIN tdata |-> tdata[t][key]])

\* The kernel batch_dot_product_sparse, lines 36-65: thread i writes tb[i].
\* Rcsr_indptr[row] of the kernel is R.indptr[row + 1] here, and likewise
\* for the values and the columns.
batch_dot_product_sparse_kernel(R, td, nrows, ncols, nbasis, nt) ==
    Evaluated([i \in 0..(ncols * nbasis * nt - 1) |->
        LET ibatch == i % nbasis
            icol == (i % (nbasis * ncols)) \div nbasis
            it == i \div (nbasis * ncols)
            t_start == it * nbasis * ncols
            row == icol
            lo == R.indptr[row + 1]
            hi == R.indptr[row + 2] - 1
        IN  ISum(lo, hi, [j \in lo..hi |->
                R.data[j + 1] * td[t_start + nbasis * R.indices[j + 1] + ibatch]])])

\* cp.hstack of arrays of shape (nt, ncols_s, nbasis): along the second axis.
HStack(tbs, nt) == Evaluated([t \in 1..nt |-> Flatten([s \in DOMAIN tbs |-> tbs[s][t]])])

\* Lines 457-509, batch_dot_product_sparse_gpu.  One thread is launched per
\* element of tdata[key], in blocks of block_size.
batch_dot_product_sparse_gpu(spectra, tdata, nb) ==
    LET nt == Len(tdata)
        one(s) ==
            LET R == spectra[s].Rcsr
                nrows == R.shape[2]
                ncols == R.shape[1]
                td == Ravel3(GpuTdata(tdata, spectra[s].wavehash), nt, nrows, nb)
                curr_tb == batch_dot_product_sparse_kernel(R, td, nrows, ncols, nb, nt)
            IN  Unravel3(curr_tb, nt, ncols, nb)
        Tbs == Evaluated([s \in DOMAIN spectra |-> one(s)])
    IN  HStack(Tbs, nt)

\* A variant of the start below: every lane starts at the first row.
LaneStartMutFromZero(lane, stride) == 0

\* Lines 177-179 of the kernel batch_dot_product_3d3d: the rows [start, end)
\* summed by the thread of the given lane; the last lane takes the remainder.
LaneStart(lane, stride) == lane * stride

\* A variant of the end below: the last lane does not take the remainder.
LaneEndMutNoRemainder(lane, stride, nrows, nparallel) == (lane + 1) * stride

\* Lines 178-179: end, the row behind the last one of the lane.
LaneEnd(lane, stride, nrows, nparallel) ==
    IF lane = nparallel - 1 THEN nrows ELSE (lane + 1) * stride

\* The kernel batch_dot_product_3d3d with transpose_a, lines 142-199: thread
\* i adds its partial sum to M[i / nparallel] with atomicAdd; M starts at
\* zero (line 763).
batch_dot_product_3d3d_kernel(a, b, nrows, nbasis, nt, nparallel) ==
    LET stride == nrows \div nparallel
    IN  Evaluated([m_idx \in 0..(nbasis * nbasis * nt - 1) |->
            LET t == m_idx \div (nbasis * nbasis)
                a_row == (m_idx % (nbasis * nbasis)) % nbasis
                b_row == (m_idx % (nbasis * nbasis)) \div nbasis
                a_idx == t * nrows * nbasis + a_row
                b_idx == t * nrows * nbasis + b_row
                \* the threads i with i / nparallel = m_idx
                first == m_idx * nparallel
                last == (m_idx + 1) * nparallel - 1
            IN  ISum(first, last, [i \in first..last |->
                    LET lane == (i % BlockSize) % nparallel
                        start == LaneStart(lane, stride)
                        end == LaneEnd(lane, stride, nrows, nparallel)
                    IN  ISum(start, end - 1, [j \in start..(end - 1) |->
                            a[a_idx + j * nbasis] * b[b_idx + j * nbasis]])])])

\* Lines 756-759: the number of threads per element of M.
NParallel(nz) == IF nz > ManyZ THEN NParallelManyZ ELSE NParallelDefault

\* Lines 714-768, calc_batch_dot_product_3d3d_gpu(a, b, transpose_a=True) on
\* arrays of shape (nz, nrows, ncols): all_M of shape (nz, ncols, ncols).
calc_batch_dot_product_3d3d_gpu(a, b, nz, nrows, ncols) ==
    LET aflat == Ravel3(a, nz, nrows, ncols)
        bflat == Ravel3(b, nz, nrows, ncols)
        nparallel == NParallel(nz)
        all_M == batch_dot_product_3d3d_kernel(aflat, bflat, nrows, ncols, nz, nparallel)
    IN  Unravel3(all_M, nz, ncols, ncols)

(***************************************************************************)
(* A launch of batch_dot_product_3d3d by calc_batch_dot_product_3d3d_gpu,  *)
(* thread by thread.  The threads run in an order the program does not     *)
(* choose; a thread reads a and b, which no thread writes, and its only    *)
(* write is the atomicAdd, so a thread is one step.                        *)
(***************************************************************************)
MaxKernelRows == 6

\* The shapes (nz, ncols) of the launches: one and several elements of M in
\* one block, a launch of two blocks, and more than ManyZ redshifts.
KernelShapes ==
    {[nz |-> 1, ncols |-> 1], [nz |-> 1, ncols |-> 2],
     [nz |-> (BlockSize \div NParallelDefault) + 1, ncols |-> 1],
     [nz |-> ManyZ + 1, ncols |-> 1]}

\* The numbers of rows: fewer than the threads of an element, as many, and
\* more, with and without remainder.
KernelRows ==
    0..MaxKernelRows \cup
    {NParallelDefault, NParallelDefault + 1, 2 * NParallelDefault + 1}

\* The elements of M followed: the first, the last, and those whose threads
\* end or begin a block.
KernelElements(nz, ncols) ==
    LET nout == nz * ncols * ncols
        np == NParallel(nz)
    IN  {m \in 0..(nout - 1) :
            m = 0 \/ m = nout - 1 \/ (m + 1) * np = BlockSize \/ m * np = BlockSize}

\* The orders in which the threads of a launch run.
KernelOrders == {"up", "down"}

KernelInputs ==
    UNION {{[nz |-> sh.nz, ncols |-> sh.ncols, nrows |-> nrows, element |-> m, order |-> o] :
                nrows \in KernelRows, m \in KernelElements(sh.nz, sh.ncols), o \in KernelOrders} :
           sh \in KernelShapes}

\* Line 761: n, the number of threads that have an element of M.
KernelN == kIn.nz * kIn.ncols * kIn.ncols * kGrid.nparallel

\* The threads of the grid: (blocks,) blocks of (block_size,) threads.
KernelThreads == kGrid.blocks * BlockSize

\* Line 167: i = blockDim.x*blockIdx.x + threadIdx.x of the thread that runs
\* after k others.
ThreadAt(k) == IF kIn.order = "up" THEN k ELSE KernelThreads - 1 - k

\* Lines 170, 175-179 for thread i: the element it adds to, and its rows.
ThreadElement(i) == i \div kGrid.nparallel

ThreadRows(i) ==
    LET nparallel == kGrid.nparallel
        stride == kIn.nrows \div nparallel
        lane == (i % BlockSize) % nparallel
    IN  LaneStart(lane, stride)..(LaneEnd(lane, stride, kIn.nrows, nparallel) - 1)

\* Lines 747-763: the shapes, nparallel, blocks, and all_M = cp.zeros.
KernelLaunch ==
    /\ kPc = "call"
    /\ LET nparallel == NParallel(kIn.nz)
           n == kIn.nz * kIn.ncols * kIn.ncols * nparallel
       IN  kGrid' = [nparallel |-> nparallel, blocks |-> (n + BlockSize - 1) \div BlockSize]
    /\ kRan' = 0
    /\ kAdded' = [j \in 0..(kIn.nrows - 1) |-> 0]
    /\ kPc' = "running"
    /\ UNCHANGED <<dwVars, scanVars, fitVars, kIn>>

\* Lines 167-198: one thread.  It returns at once when it has no element,
\* and else adds the sum of the products of its rows to its element.
KernelThread ==
    /\ kPc = "running"
    /\ kRan < KernelThreads
    /\ LET i == ThreadAt(kRan)
       IN  kAdded' = IF i >= KernelN \/ ThreadElement(i) # kIn.element
                     THEN kAdded
                     ELSE [j \in DOMAIN kAdded |->
                              kAdded[j] + IF j \in ThreadRows(i) THEN 1 ELSE 0]
    /\ kRan' = kRan + 1
    /\ UNCHANGED <<dwVars, scanVars, fitVars, kIn, kPc, kGrid>>

\* Line 768: return all_M, once the kernel has run.
KernelReturn ==
    /\ kPc = "running"
    /\ kRan = KernelThreads
    /\ kPc' = "done"
    /\ UNCHANGED <<dwVars, scanVars, fitVars, kIn, kGrid, kRan, kAdded>>

\* What cp.linalg.solve leaves for a singular matrix: it raises nothing, and
\* the division by the zero pivot gives non-finite values, or finite values
\* of no meaning when rounding has left a non-zero pivot.
GpuSingularOutcomes(nb) == {[b \in 1..nb |-> NaN], [b \in 1..nb |-> Num(1)]}

\* Line 1006, cp.linalg.solve(all_M, all_y), g what a singular system yields.
GpuSolve(all_M, all_y, nb, g) ==
    Evaluated([t \in DOMAIN all_M |->
        IF IsSingular(all_M[t], nb) THEN g ELSE SolveExact(all_M[t], all_y[t], nb)])

\* The kernel batch_dot_product_3d2d, lines 201-228: thread i writes model[i].
batch_dot_product_3d2d_kernel(tb, zc, nrows, nbasis, nt) ==
    Evaluated([i \in 0..(nrows * nt - 1) |->
        LET it == i \div nrows
            row == i % nrows
            i_tb == it * nrows * nbasis + row * nbasis
            i_zc == it * nbasis
        IN  VSumRange(0, nbasis - 1,
                 [j \in 0..(nbasis - 1) |-> VMul(Num(tb[i_tb + j]), zc[i_zc + j])])])

\* Lines 665-704, calc_batch_dot_product_3d2d_gpu: model of shape (nz, nrows).
calc_batch_dot_product_3d2d_gpu(Tbs, zc, nz, nrows, nb) ==
    LET zcflat == Evaluated([i \in 0..(nz * nb - 1) |-> zc[(i \div nb) + 1][(i % nb) + 1]])
        tbflat == Ravel3(Tbs, nz, nrows, nb)
        model == batch_dot_product_3d2d_kernel(tbflat, zcflat, nrows, nb, nz)
    IN  Evaluated([t \in 1..nz |-> [r \in 1..nrows |-> model[(t - 1) * nrows + (r - 1)]]])

\* Lines 966-997 of the GPU path: Tbs, all_M and all_y over the grid.
GpuNormalEquations(spectra, tdata, sd, nb) ==
    LET nz == Len(tdata)
        Tbs == Evaluated(batch_dot_product_sparse_gpu(spectra, tdata, nb))
        nrows == Len(sd.weights)
        wTbs == Evaluated([t \in 1..nz |-> [r \in 1..nrows |-> [b \in 1..nb |->
                    sd.weights[r] * Tbs[t][r][b]]]])
        all_M == calc_batch_dot_product_3d3d_gpu(Tbs, wTbs, nz, nrows, nb)
    IN  [Tbs |-> Tbs,
         all_M |-> all_M,
         all_y |-> Evaluated([t \in 1..nz |-> [b \in 1..nb |->
                    ISum(1, nrows, [r \in 1..nrows |-> Tbs[t][r][b] * sd.wflux[r]])]])]

\* Lines 1004-1019 of the GPU path: (zchi2, zcoeff) over the grid, from the
\* normal equations ne.
BatchGpu(ne, sd, nb, g) ==
    LET nz == Len(ne.Tbs)
        nrows == Len(sd.weights)
        zc == GpuSolve(ne.all_M, ne.all_y, nb, g)
        model == calc_batch_dot_product_3d2d_gpu(ne.Tbs, zc, nz, nrows, nb)
    IN  [zchi2 |-> [t \in 1..nz |->
                     VSumRange(1, nrows, [r \in 1..nrows |->
                        LET res == VSub(Num(sd.flux[r]), model[t][r])
                        IN  VMul(VMul(res, res), Num(sd.weights[r]))])],
         zcoeff |-> zc]

(***************************************************************************)
(* calc_zchi2_v3: lines 1055-1127.                                         *)
(***************************************************************************)
OIIWaveMin == 3724
OIIWaveMax == 3733

\* Lines 1087-1089: OIItemplate = template.flux[:, isOII].T, as the set of
\* the wavelength indices in the window.
IsOII(wave) == {k \in DOMAIN wave : OIIWaveMin <= wave[k] /\ wave[k] <= OIIWaveMax}

\* Line 1121: OIIflux = np.sum(zcoeff[j] @ OIItemplate.T, axis=1), at one
\* redshift with coefficients zc.
OIIflux(zc, tflux, wave) ==
    VSum(IsOII(wave), [k \in IsOII(wave) |->
        VSumRange(1, Len(zc), [b \in DOMAIN zc |-> VMul(zc[b], Num(tflux[b][k]))])])

\* A variant of the row below: the negated flux is stored at every redshift,
\* whatever its sign.
PenaltyRowMutNoSignTest(zcoeff, tflux, wave) ==
    [i \in DOMAIN zcoeff |-> VNeg(OIIflux(zcoeff[i], tflux, wave))]

\* Line 1122: zchi2penalty[j][OIIflux < 0] = -OIIflux[OIIflux < 0]; the other
\* entries keep their zero.
PenaltyRow(zcoeff, tflux, wave) ==
    [i \in DOMAIN zcoeff |->
        LET f == OIIflux(zcoeff[i], tflux, wave)
        IN  IF VNegative(f) THEN VNeg(f) ELSE Zero]

\* A variant of the test below: no target is taken to be without weight.
ZeroWeightMutNever(weights) == FALSE

\* Line 1102: np.sum(weights) == 0.
ZeroWeight(weights) == SumSeq(weights) = 0

(***************************************************************************)
(* The inputs of the fit.  A target has two spectra: band "b" of two       *)
(* pixels and band "r" of one pixel, each with its resolution matrix.      *)
(***************************************************************************)
\* The resolution matrices [[1, 0], [1, 1]] and [[2]] in CSR form.
RcsrB == [data |-> <<1, 1, 1>>, indices |-> <<0, 0, 1>>, indptr |-> <<0, 1, 3>>,
          shape |-> <<2, 2>>]
RcsrR == [data |-> <<2>>, indices |-> <<0>>, indptr |-> <<0, 1>>, shape |-> <<1, 1>>]

MkTarget(ivb, flb, ivr, flr) ==
    [spectra |-> <<[ivar |-> ivb, flux |-> flb, Rcsr |-> RcsrB, wavehash |-> "b"],
                   [ivar |-> ivr, flux |-> flr, Rcsr |-> RcsrR, wavehash |-> "r"]>>]

\* Targets: all weights zero; no weight on band "r"; uneven weights.
TargetChoices ==
    {MkTarget(<<0, 0>>, <<1, 2>>, <<0>>, <<3>>),
     MkTarget(<<1, 2>>, <<2, 1>>, <<0>>, <<1>>),
     MkTarget(<<2, 1>>, <<0, 1>>, <<1>>, <<2>>)}

\* The template resampled at one redshift, per wavehash, for two basis
\* vectors: independent columns; equal columns; columns that are independent
\* only through the pixel of band "r".
TdataChoices ==
    {[b |-> <<<<1, 0>>, <<0, 1>>>>, r |-> <<<<1, 1>>>>],
     [b |-> <<<<1, 1>>, <<1, 1>>>>, r |-> <<<<1, 1>>>>],
     [b |-> <<<<1, 0>>, <<0, 0>>>>, r |-> <<<<0, 1>>>>]}

\* The template: its type, its rest-frame wavelengths and its flux per basis
\* vector; two of the wavelengths lie in the [OII] window, on its borders.
TemplateWave == <<3700, OIIWaveMin, OIIWaveMax, 3800>>
TemplateChoices ==
    {[template_type |-> "GALAXY", wave |-> TemplateWave,
      flux |-> <<<<5, -1, 0, 5>>, <<5, 0, -1, 5>>>>],
     [template_type |-> "GALAXY", wave |-> TemplateWave,
      flux |-> <<<<-9, -1, 0, -9>>, <<-9, 0, 2, -9>>>>],
     [template_type |-> "STAR", wave |-> TemplateWave,
      flux |-> <<<<5, -1, 0, 5>>, <<5, 0, -1, 5>>>>]}

MaxFitTargets == 2
MaxFitNz == 2

SeqsUpTo(S, n) == UNION {[1..k -> S] : k \in 1..n}

\* The calls of calc_zchi2_v3 the model makes.  comm_none: dtemplate.comm is
\* None, and then the caller passes a progress queue.
FitInputs ==
    [target_data : SeqsUpTo(TargetChoices, MaxFitTargets),
     data : SeqsUpTo(TdataChoices, MaxFitNz),
     template : TemplateChoices,
     comm_none : BOOLEAN]

Paths == {"cpu", "gpu"}
UseGpu(p) == p = "gpu"

FitNz == Len(fitIn.data)
FitNTargets == Len(fitIn.target_data)
FitNBasis == Len(fitIn.template.flux)

\* np.zeros of the shapes of lines 1081-1083.
ZeroOut ==
    [zchi2 |-> [j \in 1..FitNTargets |-> [i \in 1..FitNz |-> Zero]],
     zchi2penalty |-> [j \in 1..FitNTargets |-> [i \in 1..FitNz |-> Zero]],
     zcoeff |-> [j \in 1..FitNTargets |-> [i \in 1..FitNz |-> ZeroVec(FitNBasis)]]]

\* Lines 1077-1098: the sizes, the arrays of zeros, the [OII] window and the
\* template data as the path takes it.  The call with use_gpu=True is made
\* on the same inputs once the call with use_gpu=False has returned.
V3Setup(p) ==
    /\ fitPc[p] = "call"
    /\ UseGpu(p) => fitPc["cpu"] = "done"
    /\ fitOut' = [fitOut EXCEPT ![p] = ZeroOut]
    /\ fitJ' = [fitJ EXCEPT ![p] = 1]
    /\ fitPc' = [fitPc EXCEPT ![p] = "loop"]
    /\ UNCHANGED <<gpuVars, dwVars, scanVars, fitIn, fitSolves, fitPut>>

\* Lines 1100-1104: a target without weight gets 9e99 over the grid and the
\* loop continues with the next target.
V3ZeroWeight(p) ==
    /\ fitPc[p] = "loop"
    /\ fitJ[p] <= FitNTargets
    /\ LET j == fitJ[p]
           sd == spectral_data(fitIn.target_data[j].spectra)
       IN  /\ ZeroWeight(sd.weights)
           /\ fitOut' = [fitOut EXCEPT ![p].zchi2[j] = [i \in 1..FitNz |-> Sentinel9e99]]
           /\ fitJ' = [fitJ EXCEPT ![p] = j + 1]
    /\ UNCHANGED <<gpuVars, dwVars, scanVars, fitIn, fitPc, fitSolves, fitPut>>

\* Lines 1117-1125 after the batch: the rows of target j stored, the [OII]
\* penalty of a GALAXY template, and the progress count when there is no
\* communicator.
V3Store(p, j, batch) ==
    /\ fitOut' = [fitOut EXCEPT
            ![p].zchi2[j] = batch.zchi2,
            ![p].zcoeff[j] = batch.zcoeff,
            ![p].zchi2penalty[j] =
                IF fitIn.template.template_type = "GALAXY"
                THEN PenaltyRow(batch.zcoeff, fitIn.template.flux, fitIn.template.wave)
                ELSE @]
    /\ fitSolves' = [fitSolves EXCEPT ![p] = @ \cup {j}]
    /\ fitPut' = [fitPut EXCEPT ![p] = IF fitIn.comm_none THEN @ + 1 ELSE @]
    /\ fitJ' = [fitJ EXCEPT ![p] = j + 1]

\* Lines 1100-1125 with use_gpu=False: one iteration on a target with weight.
V3FitCpu ==
    /\ fitPc["cpu"] = "loop"
    /\ fitJ["cpu"] <= FitNTargets
    /\ LET j == fitJ["cpu"]
           spectra == fitIn.target_data[j].spectra
           sd == spectral_data(spectra)
       IN  /\ ~ZeroWeight(sd.weights)
           /\ \E batch \in {BatchCpu(spectra, fitIn.data, sd, FitNBasis)} :
                V3Store("cpu", j, batch)
    /\ UNCHANGED <<gpuVars, dwVars, scanVars, fitIn, fitPc>>

\* Lines 1100-1125 with use_gpu=True: one iteration on a target with weight.
V3FitGpu ==
    /\ fitPc["gpu"] = "loop"
    /\ fitJ["gpu"] <= FitNTargets
    /\ LET j == fitJ["gpu"]
           spectra == fitIn.target_data[j].spectra
           sd == spectral_data(spectra)
       IN  /\ ~ZeroWeight(sd.weights)
           /\ \E ne \in {GpuNormalEquations(spectra, fitIn.data, sd, FitNBasis)} :
              \E g \in GpuSingularOutcomes(FitNBasis) :
              \E batch \in {BatchGpu(ne, sd, FitNBasis, g)} :
                V3Store("gpu", j, batch)
    /\ UNCHANGED <<gpuVars, dwVars, scanVars, fitIn, fitPc>>

\* Line 1127: return zchi2, zcoeff, zchi2penalty.
V3Return(p) ==
    /\ fitPc[p] = "loop"
    /\ fitJ[p] > FitNTargets
    /\ fitPc' = [fitPc EXCEPT ![p] = "done"]
    /\ UNCHANGED <<gpuVars, dwVars, scanVars, fitIn, fitJ, fitOut, fitSolves, fitPut>>

FitRest ==
    /\ fitPc = [p \in Paths |-> "call"]
    /\ fitJ = [p \in Paths |-> 0]
    /\ fitOut = [p \in Paths |-> <<>>]
    /\ fitSolves = [p \in Paths |-> {}]
    /\ fitPut = [p \in Paths |-> 0]

\* No call of calc_zchi2_v3 is modelled.
FitIdle ==
    /\ fitIn = [target_data |-> <<>>, data |-> <<>>, template |-> <<>>, comm_none |-> TRUE]
    /\ fitPc = [p \in Paths |-> "idle"]
    /\ fitJ = [p \in Paths |-> 0]
    /\ fitOut = [p \in Paths |-> <<>>]
    /\ fitSolves = [p \in Paths |-> {}]
    /\ fitPut = [p \in Paths |-> 0]

\* No launch of the kernel is modelled.
KernelIdle ==
    /\ kIn = [nz |-> 0, ncols |-> 0, nrows |-> 0, element |-> 0, order |-> "up"]
    /\ kPc = "idle"
    /\ kGrid = [nparallel |-> 0, blocks |-> 0]
    /\ kRan = 0
    /\ kAdded = <<>>

\* distribute_work at rest while the scan is modelled, and the reverse.
DWIdle ==
    /\ dwArgs = [nproc |-> 1, ids |-> <<>>, weights |-> NoneVal, capacities |-> NoneVal]
    /\ dwSids = <<>>
    /\ dwPos = 0
    /\ dwProcs = [dist |-> <<>>, load |-> <<>>]
    /\ dwPc = "idle"

ScanIdle ==
    /\ scanCfg = [mode |-> "idle", size |-> 0, mp_procs |-> 0, tcomm |-> FALSE, use_gpu |-> FALSE,
                  local |-> <<>>, zerow |-> {}, nz |-> <<>>]
    /\ pc = <<>> /\ ti = <<>> /\ results = <<>> /\ acc = <<>> /\ tlocal = <<>>
    /\ chan = <<>> /\ prog = <<>> /\ proglast = <<>> /\ emitted = <<>>
    /\ mpdist = <<>> /\ procs = {} /\ child = <<>> /\ qout = <<>> /\ qprog = <<>>
    /\ tot = 0 /\ progincr = 0 /\ nrecv = 0 /\ fits = EmptyBag /\ nput = 0

InitDW ==
    /\ ScanIdle
    /\ FitIdle
    /\ KernelIdle
    /\ \/ \E n \in 1..MaxProc, k \in 0..MaxUnits : dwArgs \in DWArgSets(n, k)
       \/ dwArgs \in DWUniformArgSets \cup DWTestCalls \cup DWInvalidArgSets
    /\ dwSids = <<>>
    /\ dwPos = 0
    /\ dwProcs = [dist |-> <<>>, load |-> <<>>]
    /\ dwPc = "call"

Init == InitScan /\ DWIdle /\ FitIdle /\ KernelIdle

NextDW == DWSetup \/ DWAssignUnit \/ DWReturn

SpecDW == InitDW /\ [][NextDW]_vars


InitFit ==
    /\ DWIdle
    /\ ScanIdle
    /\ KernelIdle
    /\ fitIn \in FitInputs
    /\ FitRest

NextFit ==
    \/ \E p \in Paths : V3Setup(p)
    \/ \E p \in Paths : V3ZeroWeight(p)
    \/ V3FitCpu
    \/ V3FitGpu
    \/ \E p \in Paths : V3Return(p)

SpecFit == InitFit /\ [][NextFit]_vars

InitProgress ==
    /\ DWIdle
    /\ FitIdle
    /\ KernelIdle
    /\ scanCfg \in ProgressConfigs
    /\ pc = <<"spawned">>
    /\ ti = <<1>>
    /\ results = <<[tid \in Range(scanCfg.local[1]) |-> EmptyDict]>>
    /\ acc = <<EmptyAcc>>
    /\ tlocal = <<1>>
    /\ chan = <<<<>>>>
    /\ prog = <<0>>
    /\ proglast = <<0>>
    /\ emitted = <<<<>>>>
    /\ mpdist = <<>> /\ procs = {} /\ child = <<>> /\ qout = <<>> /\ qprog = <<>>
    /\ tot = 0 /\ progincr = 0 /\ nrecv = 0 /\ fits = EmptyBag /\ nput = 0

NextProgress == ProgressBegin \/ CountArrives \/ PoolProgress(1)

SpecProgress == InitProgress /\ [][NextProgress]_vars

\* The scans of pool mode alone, with and without use_gpu.
InitPool ==
    /\ DWIdle
    /\ FitIdle
    /\ KernelIdle
    /\ scanCfg \in PoolGpuConfigs
    /\ ScanRest

NextPool ==
    \/ ScanStart(1)
    \/ ScanReturn(1)
    \/ StoreResults(1)
    \/ PoolSpawn(1)
    \/ PoolProgress(1)
    \/ PoolCollect(1)
    \/ \E i \in Children : ChildFit(i)
    \/ \E i \in Children : ChildPut(i)
    \/ \E i \in Children : ChildRaise(i)

SpecPool == InitPool /\ [][NextPool]_vars

\* The scans of ring mode alone, with and without use_gpu.
InitRing ==
    /\ DWIdle
    /\ FitIdle
    /\ KernelIdle
    /\ scanCfg \in RingConfigsAll
    /\ ScanRest

NextRing ==
    \/ \E r \in Ranks : ScanStart(r)
    \/ \E r \in Ranks : ScanReturn(r)
    \/ \E r \in Ranks : RingBegin(r)
    \/ \E r \in Ranks : RingFit(r)
    \/ \E r \in Ranks : RingRecv(r)
    \/ \E r \in Ranks : RingConcat(r)
    \/ \E r \in Ranks : StoreResults(r)

SpecRing == InitRing /\ [][NextRing]_vars

\* A launch of the kernel alone.
InitKernel ==
    /\ DWIdle
    /\ ScanIdle
    /\ FitIdle
    /\ kIn \in KernelInputs
    /\ kPc = "call"
    /\ kGrid = [nparallel |-> 0, blocks |-> 0]
    /\ kRan = 0
    /\ kAdded = <<>>

NextKernel == KernelLaunch \/ KernelThread \/ KernelReturn

SpecKernel == InitKernel /\ [][NextKernel]_vars

Spec == Init /\ [][Next]_vars

\* Every process that can take a step eventually takes one: the operating
\* system schedules each rank and each child process.  A child process is
\* never bound to raise.
RankStep(r) ==
    /\ r \in Ranks
    /\ \/ ScanStart(r) \/ ScanReturn(r) \/ RingBegin(r) \/ RingFit(r) \/ RingRecv(r)
       \/ RingConcat(r) \/ StoreResults(r) \/ PoolSpawn(r) \/ PoolProgress(r)
       \/ PoolCollect(r)

ChildStep(i) ==
    /\ i \in Children
    /\ (ChildFit(i) \/ ChildPut(i))

FairSpec ==
    /\ Spec
    /\ \A r \in 1..MaxRanks : WF_vars(RankStep(r))
    /\ \A i \in 1..MaxRanks : WF_vars(ChildStep(i))

(***************************************************************************)
(* C2: for every worker count n >= 1 and every list of distinct unit ids,  *)
(* distribute_work returns exactly n lists whose concatenation is a        *)
(* permutation of the input ids: every unit is on exactly one worker and   *)
(* the number of units is preserved.                                       *)
(***************************************************************************)
IsPermutationOf(s, t) ==
    /\ Len(s) = Len(t)
    /\ \A x \in Range(s) \cup Range(t) :
        Cardinality({i \in DOMAIN s : s[i] = x}) = Cardinality({i \in DOMAIN t : t[i] = x})

C2_DistributeCoversOnce ==
    dwPc = "done" =>
        /\ Len(dwProcs.dist) = dwArgs.nproc
        /\ IsPermutationOf(Flatten(dwProcs.dist), dwArgs.ids)

C2_Witness ==
    /\ dwPc = "done"
    /\ dwArgs.nproc = 2
    /\ Len(dwArgs.ids) = 3
    /\ \A i \in 1..2 : dwProcs.dist[i] # <<>>

(***************************************************************************)
(* Claims about the scan.                                                  *)
(***************************************************************************)
RECURSIVE SumOver(_, _)
SumOver(S, f) ==
    IF S = {} THEN 0
    ELSE LET x == CHOOSE y \in S : TRUE IN f[x] + SumOver(S \ {x}, f)

AllTargetIds == UNION {Range(LocalIds(r)) : r \in Ranks}

\* Rank r has left the while loop of template k.
LeftLoop(r, k) == ti[r] > k \/ (ti[r] = k /\ pc[r] \in {"concat", "store"})

\* The number of fits performed for target tid at redshift z of template k,
\* over all ranks and all slices holding z.
FitCount(k, tid, z) ==
    LET n == scanCfg.size
        holding == {p \in 1..n : z \in Range(SliceRedshifts(scanCfg.nz[k], n, p))}
        visits == Ranks \X holding
    IN  SumOver(visits, [v \in visits |-> CopiesIn(<<v[1], k, tid, v[2]>>, fits)])

(***************************************************************************)
(* C1: in ring mode, once every rank has left the scanning loop of a       *)
(* template, the fits performed over all ranks cover the cross product of  *)
(* targets and slices exactly once: every local target of every rank was   *)
(* fitted on every slice once, so every (target, redshift) pair was        *)
(* computed once, none is missing and none was computed twice.             *)
(***************************************************************************)
C1_RingCoverage ==
    IsRing =>
        \A k \in 1..NTemplates :
            (\A r \in Ranks : LeftLoop(r, k)) =>
                /\ \A r \in Ranks : \A tid \in Range(LocalIds(r)) : \A p \in Ranks :
                        CopiesIn(<<r, k, tid, p>>, fits) = 1
                /\ \A tid \in AllTargetIds : \A z \in 1..scanCfg.nz[k] :
                        FitCount(k, tid, z) = 1

C1_Witness ==
    /\ IsRing
    /\ scanCfg.size = 2
    /\ \A r \in Ranks : Len(LocalIds(r)) = 1 /\ LeftLoop(r, 1)
    /\ scanCfg.nz[1] >= 2

(***************************************************************************)
(* C3: in pool mode, if no child process fails, the coordinator that has   *)
(* started the processes of a template eventually receives the progress    *)
(* counts of all local targets and one result from every started process,  *)
(* and completes the scan of the template; for every target set, also with *)
(* targets of total weight zero.                                           *)
(***************************************************************************)
SomeChildFailed == \E i \in Children : child[i].pc = "failed"

C3_PoolCompletes ==
    (IsPool /\ pc[1] = "progress") ~> (pc[1] = "store" \/ SomeChildFailed)

(***************************************************************************)
(* C4: in ring mode every rank eventually finishes the scanning loop of    *)
(* every template, whatever the number of local targets of each rank,      *)
(* also when some rank has no local target.                                *)
(***************************************************************************)
C4_RingTerminates == IsRing ~> (\A r \in Ranks : pc[r] = "done")

(***************************************************************************)
(* C5: when the scan is done, the results hold, for every local target id  *)
(* and every template, exactly one record with the fields redshifts,       *)
(* zchi2, penalty and zcoeff, each with one entry per redshift of the full *)
(* grid of the template; pool mode never runs the concatenation step.      *)
(***************************************************************************)
ResultFields == {"redshifts", "zchi2", "penalty", "zcoeff"}

C5_ResultsComplete ==
    \A r \in Ranks :
        /\ IsPool => pc[r] # "concat"
        /\ pc[r] = "done" =>
            /\ DOMAIN results[r] = Range(LocalIds(r))
            /\ \A tid \in Range(LocalIds(r)) :
                /\ DOMAIN results[r][tid] = 1..NTemplates
                /\ \A k \in 1..NTemplates :
                    /\ DOMAIN results[r][tid][k] = ResultFields
                    /\ \A f \in ResultFields :
                        Len(results[r][tid][k][f]) = scanCfg.nz[k]

C5_Witness ==
    /\ IsPool
    /\ pc[1] = "done"
    /\ Len(LocalIds(1)) = 2
    /\ NTemplates = 2
    /\ Cardinality(procs) = 2

(***************************************************************************)
(* C6: in ring mode the merged zchi2, zcoeff and penalty vectors of a      *)
(* target are its per-slice vectors in ascending order of slice index,     *)
(* whatever the order in which the slices visited the rank: entry i of a   *)
(* merged vector is the entry computed for redshift i of the full grid, on *)
(* the spectra of that target.                                             *)
(***************************************************************************)
InGridOrder(row, tid, k) ==
    /\ Len(row) = scanCfg.nz[k]
    /\ \A i \in 1..Len(row) :
        row[i].z = Redshifts(k)[i] /\ row[i].src = tid /\ row[i].tmpl = k

C6_MergedInGridOrder ==
    IsRing =>
        \A r \in Ranks :
            /\ pc[r] = "store" =>
                \A tid \in DOMAIN acc[r].zchi2 :
                    /\ InGridOrder(acc[r].zchi2[tid].vec, tid, ti[r])
                    /\ InGridOrder(acc[r].zcoeff[tid].vec, tid, ti[r])
                    /\ InGridOrder(acc[r].penalty[tid].vec, tid, ti[r])
            /\ \A tid \in DOMAIN results[r] : \A k \in DOMAIN results[r][tid] :
                    /\ InGridOrder(results[r][tid][k].zchi2, tid, k)
                    /\ InGridOrder(results[r][tid][k].zcoeff, tid, k)
                    /\ InGridOrder(results[r][tid][k].penalty, tid, k)

\* Rank 2 of 2 sees slice 2 before slice 1.
C6_Witness ==
    /\ IsRing
    /\ scanCfg.size = 2
    /\ pc[2] = "store"
    /\ LocalIds(2) # <<>>
    /\ scanCfg.nz[ti[2]] >= 2

(***************************************************************************)
(* Claims about the fit.                                                   *)
(***************************************************************************)
FitSpectra(j) == fitIn.target_data[j].spectra
FitWeights(j) == spectral_data(FitSpectra(j)).weights
FitFlux(j) == spectral_data(FitSpectra(j)).flux

\* The concatenated weights of target j do not sum to zero.
HasWeight(j) == SumSeq(FitWeights(j)) # 0

\* The design matrix of target j at redshift i, and whether its normal
\* equations are singular.
DesignMatrix(j, i) == dot_product_sparse_one(FitSpectra(j), fitIn.data[i], FitNBasis)
SingularAt(j, i) == IsSingular(NormalM(DesignMatrix(j, i), FitWeights(j), FitNBasis), FitNBasis)

\* zc solves the weighted least-squares problem of target j at redshift i:
\* the weighted residual is orthogonal to every basis column; and chi2 is
\* the weighted sum of the squared residuals.
IsLeastSquaresFit(j, i, zc, chi2) ==
    LET Tb == Evaluated(DesignMatrix(j, i))
        w == FitWeights(j)
        res == Evaluated([r \in DOMAIN Tb |->
                  VSub(Num(FitFlux(j)[r]),
                       VSumRange(1, FitNBasis, [b \in 1..FitNBasis |-> VMul(Num(Tb[r][b]), zc[b])]))])
    IN  /\ \A a \in 1..FitNBasis :
              VSumRange(1, Len(Tb), [r \in DOMAIN Tb |-> VMul(Num(Tb[r][a] * w[r]), res[r])]) = Zero
        /\ chi2 = VSumRange(1, Len(Tb), [r \in DOMAIN Tb |-> VMul(Num(w[r]), VMul(res[r], res[r]))])

\* The redshifts of the grid that are not singular for target j, ascending.
RegularIndices(j) == Sorted({i \in 1..FitNz : ~SingularAt(j, i)})

\* The CPU batch of target j on the grid without its singular redshifts.
CpuBatchWithoutSingular(j) ==
    LET idx == RegularIndices(j)
    IN  BatchCpu(FitSpectra(j), [k \in DOMAIN idx |-> fitIn.data[idx[k]]],
                 spectral_data(FitSpectra(j)), FitNBasis)

(***************************************************************************)
(* C7: on the CPU path, at the return of the call, every target with       *)
(* weight has, at each redshift whose normal equations are singular,       *)
(* chi-squared 9e99 and all-zero coefficients, and at every other redshift *)
(* the least-squares fit, equal to what the batch computes on the grid     *)
(* with the singular redshifts taken out.                                  *)
(***************************************************************************)
C7_CpuSingularSentinel ==
    (fitPc["cpu"] = "done" /\ fitPc["gpu"] = "call") =>
        \A j \in 1..FitNTargets : HasWeight(j) =>
            LET out == fitOut["cpu"]
                idx == RegularIndices(j)
                ref == CpuBatchWithoutSingular(j)
            IN  /\ \A i \in 1..FitNz : SingularAt(j, i) =>
                      /\ out.zchi2[j][i] = Sentinel9e99
                      /\ out.zcoeff[j][i] = ZeroVec(FitNBasis)
                /\ \A k \in DOMAIN idx :
                      /\ IsLeastSquaresFit(j, idx[k], out.zcoeff[j][idx[k]], out.zchi2[j][idx[k]])
                      /\ out.zchi2[j][idx[k]] = ref.zchi2[k]
                      /\ out.zcoeff[j][idx[k]] = ref.zcoeff[k]

\* The CPU call has returned from a batch with a singular redshift and a
\* regular one.
C7_Witness ==
    /\ fitPc["cpu"] = "done"
    /\ \E j \in 1..FitNTargets : \E i1, i2 \in 1..FitNz :
          /\ HasWeight(j)
          /\ SingularAt(j, i1)
          /\ ~SingularAt(j, i2)
          /\ fitOut["cpu"].zchi2[j][i1] = Sentinel9e99
          /\ fitOut["cpu"].zchi2[j][i2] # Sentinel9e99

(***************************************************************************)
(* C8: on either path and for every template type, when the call has       *)
(* returned, a target whose weights sum to zero has chi-squared 9e99 at    *)
(* every redshift, zero coefficients and zero penalties, and no linear     *)
(* solve was attempted for it.                                             *)
(***************************************************************************)
C8_ZeroWeightShortCircuit ==
    \A p \in Paths : fitPc[p] = "done" =>
        \A j \in 1..FitNTargets : ~HasWeight(j) =>
            /\ j \notin fitSolves[p]
            /\ \A i \in 1..FitNz :
                  /\ fitOut[p].zchi2[j][i] = Sentinel9e99
                  /\ fitOut[p].zcoeff[j][i] = ZeroVec(FitNBasis)
                  /\ fitOut[p].zchi2penalty[j][i] = Zero

\* Both calls have returned, on a GALAXY template, with a target without
\* weight behind a target with weight.
C8_Witness ==
    /\ fitPc["cpu"] = "done" /\ fitPc["gpu"] = "done"
    /\ fitIn.template.template_type = "GALAXY"
    /\ \E j1, j2 \in 1..FitNTargets : j1 < j2 /\ HasWeight(j1) /\ ~HasWeight(j2)

(***************************************************************************)
(* C9: when both calls have returned, every redshift whose normal          *)
(* equations are singular for a target with weight has, on the GPU path,   *)
(* chi-squared 9e99 and zero coefficients, exactly as on the CPU path.     *)
(***************************************************************************)
C9_SameSentinelPolicy ==
    (fitPc["cpu"] = "done" /\ fitPc["gpu"] = "done") =>
        \A j \in 1..FitNTargets : HasWeight(j) =>
            \A i \in 1..FitNz : SingularAt(j, i) =>
                /\ fitOut["gpu"].zchi2[j][i] = Sentinel9e99
                /\ fitOut["gpu"].zcoeff[j][i] = ZeroVec(FitNBasis)
                /\ fitOut["gpu"].zchi2[j][i] = fitOut["cpu"].zchi2[j][i]
                /\ fitOut["gpu"].zcoeff[j][i] = fitOut["cpu"].zcoeff[j][i]

\* Both calls have returned and a singular redshift holds the sentinel on
\* the CPU path and something else on the GPU path.
C9_Witness ==
    /\ fitPc["cpu"] = "done" /\ fitPc["gpu"] = "done"
    /\ \E j \in 1..FitNTargets : \E i \in 1..FitNz :
          /\ HasWeight(j)
          /\ SingularAt(j, i)
          /\ fitOut["cpu"].zchi2[j][i] = Sentinel9e99
          /\ fitOut["gpu"].zchi2[j][i] # Sentinel9e99

\* x <= y for two rationals.
VLessEq(x, y) == x.n * y.d <= y.n * x.d

\* np.argmin: the first index of the least value of a row of rationals.
ArgMin(row) ==
    CHOOSE i \in DOMAIN row :
        /\ \A k \in DOMAIN row : VLessEq(row[i], row[k])
        /\ \A k \in 1..(i - 1) : ~VLessEq(row[k], row[i])

NoSingular(j) == \A i \in 1..FitNz : ~SingularAt(j, i)

(***************************************************************************)
(* C10: when both calls have returned, a target with weight on a grid      *)
(* without singular redshift has the same chi-squared and the same         *)
(* coefficients on the CPU path and on the GPU path, in exact arithmetic,  *)
(* and the same redshift of least chi-squared.                             *)
(***************************************************************************)
C10_CpuGpuAgree ==
    (fitPc["cpu"] = "done" /\ fitPc["gpu"] = "done") =>
        \A j \in 1..FitNTargets : (HasWeight(j) /\ NoSingular(j)) =>
            /\ fitOut["gpu"].zchi2[j] = fitOut["cpu"].zchi2[j]
            /\ fitOut["gpu"].zcoeff[j] = fitOut["cpu"].zcoeff[j]
            /\ ArgMin(fitOut["gpu"].zchi2[j]) = ArgMin(fitOut["cpu"].zchi2[j])

\* Both calls have returned with a target with weight fitted on a grid of
\* two regular redshifts, with chi-squared values that differ.
C10_Witness ==
    /\ fitPc["cpu"] = "done" /\ fitPc["gpu"] = "done"
    /\ \E j \in 1..FitNTargets :
          /\ HasWeight(j)
          /\ NoSingular(j)
          /\ FitNz >= 2
          /\ fitOut["gpu"].zchi2[j][1] # fitOut["gpu"].zchi2[j][2]
          /\ fitOut["gpu"].zcoeff[j][1] # ZeroVec(FitNBasis)

\* The pixels of the template grid within the [OII] window, and the flux of
\* basis vector b summed over them.
WindowPixels == {k \in DOMAIN fitIn.template.wave :
                    fitIn.template.wave[k] >= 3724 /\ fitIn.template.wave[k] <= 3733}
WindowBasisFlux(b) == SumOver(WindowPixels, [k \in WindowPixels |-> fitIn.template.flux[b][k]])

\* The modeled flux of the fit with coefficients zc, summed over the [OII]
\* window: each coefficient times the windowed flux of its basis vector.
WindowModelFlux(zc) ==
    VSumRange(1, FitNBasis, [b \in 1..FitNBasis |-> VMul(zc[b], Num(WindowBasisFlux(b)))])

\* The call on path p has returned and nothing has happened since: the
\* call on the GPU path is made once the call on the CPU path has returned,
\* and is the last.
JustReturned(p) == fitPc[p] = "done" /\ (p = "cpu" => fitPc["gpu"] = "call")

(***************************************************************************)
(* C11: on either path, at the return of the call, the penalty of every    *)
(* target at every redshift is a number that is not negative; with a       *)
(* GALAXY template it is the negated modeled flux summed over the [OII]    *)
(* window where that flux is negative and zero elsewhere, and with any     *)
(* other template type it is zero.                                         *)
(***************************************************************************)
C11_PenaltyRule ==
    \A p \in Paths : JustReturned(p) =>
        \A j \in 1..FitNTargets : \A i \in 1..FitNz :
            LET pen == fitOut[p].zchi2penalty[j][i]
                f == WindowModelFlux(fitOut[p].zcoeff[j][i])
            IN  /\ ~IsNaN(pen)
                /\ pen.n >= 0
                /\ pen = IF fitIn.template.template_type = "GALAXY" /\ VNegative(f)
                         THEN VNeg(f) ELSE Zero

\* Both calls have returned on a GALAXY template with, on each path, a
\* redshift of positive penalty and a redshift whose modeled flux in the
\* window is positive and whose penalty is zero.
C11_Witness ==
    /\ fitPc["cpu"] = "done" /\ fitPc["gpu"] = "done"
    /\ fitIn.template.template_type = "GALAXY"
    /\ \A p \in Paths :
          /\ \E j \in 1..FitNTargets : \E i \in 1..FitNz :
                /\ fitOut[p].zchi2penalty[j][i] # Zero
                /\ fitOut[p].zchi2penalty[j][i] = VNeg(WindowModelFlux(fitOut[p].zcoeff[j][i]))
          /\ \E j \in 1..FitNTargets : \E i \in 1..FitNz :
                /\ fitOut[p].zchi2penalty[j][i] = Zero
                /\ ~IsNaN(WindowModelFlux(fitOut[p].zcoeff[j][i]))
                /\ WindowModelFlux(fitOut[p].zcoeff[j][i]).n > 0

(***************************************************************************)
(* Claims about distribute_work, continued.                                *)
(***************************************************************************)
\* The weight of unit x and the capacity of worker i as the call gives
\* them, 1 where it gives none.
RefWeight(x) == IF dwArgs.weights = NoneVal THEN 1 ELSE dwArgs.weights[1][x]
RefCapacity(i) == IF dwArgs.capacities = NoneVal THEN 1 ELSE dwArgs.capacities[1][i]

\* The configuration is valid: at least one worker, every capacity
\* positive, a weight for every unit.
DWValid ==
    /\ dwArgs.nproc >= 1
    /\ \A i \in 1..dwArgs.nproc : RefCapacity(i) > 0
    /\ dwArgs.weights # NoneVal => \A x \in Range(dwArgs.ids) : x \in DOMAIN dwArgs.weights[1]

\* The position of unit x in the input.
InputIndex(x) == CHOOSE k \in DOMAIN dwArgs.ids : dwArgs.ids[k] = x

\* sids holds the units by descending weight, units of equal weight in
\* input order.
RefOrder(sids) ==
    /\ IsPermutationOf(sids, dwArgs.ids)
    /\ \A a, b \in DOMAIN sids : a < b =>
          \/ RefWeight(sids[a]) > RefWeight(sids[b])
          \/ /\ RefWeight(sids[a]) = RefWeight(sids[b])
             /\ InputIndex(sids[a]) < InputIndex(sids[b])

\* x < y for two rationals.
VLess(x, y) == x.n * y.d < y.n * x.d

\* Worker i is preferred to worker q for a unit of weight w: a smaller
\* (load + w) / capacity, then the larger capacity, then the smaller index.
RefPreferred(i, q, w) ==
    LET qi == Rat(dwProcs.load[i] + w, RefCapacity(i))
        qq == Rat(dwProcs.load[q] + w, RefCapacity(q))
    IN  \/ VLess(qi, qq)
        \/ qi = qq /\ RefCapacity(i) > RefCapacity(q)
        \/ qi = qq /\ RefCapacity(i) = RefCapacity(q) /\ i < q

\* One step of a call with a valid configuration, as the reference greedy
\* takes it.
RefGreedyStep ==
    LET n == dwArgs.nproc
    IN  /\ dwPc = "call" =>
            /\ dwPc' = "loop"
            /\ dwPos' = 1
            /\ RefOrder(dwSids')
            /\ dwProcs' = [dist |-> [i \in 1..n |-> <<>>], load |-> [i \in 1..n |-> 0]]
        /\ (dwPc = "loop" /\ dwPos <= Len(dwSids)) =>
            LET u == dwSids[dwPos]
            IN  \E i \in 1..n :
                  /\ \A q \in (1..n) \ {i} : RefPreferred(i, q, RefWeight(u))
                  /\ dwProcs'.dist = [dwProcs.dist EXCEPT ![i] = Append(@, u)]
                  /\ dwProcs'.load = [dwProcs.load EXCEPT ![i] = @ + RefWeight(u)]
                  /\ dwPos' = dwPos + 1
                  /\ dwPc' = "loop"
                  /\ dwSids' = dwSids
        /\ (dwPc = "loop" /\ dwPos > Len(dwSids)) =>
            /\ dwPc' = "done"
            /\ dwProcs' = dwProcs

(***************************************************************************)
(* C12: a call with a valid configuration proceeds as the reference        *)
(* greedy: the units are ordered by descending weight, units of equal      *)
(* weight in input order; every worker starts with load 0; each unit in    *)
(* turn is appended to the list of the worker with the least               *)
(* (load + weight) / capacity, among equals the one of larger capacity,    *)
(* among those the one of smallest index, and that worker's load grows by  *)
(* the unit's weight; a weight or a capacity that is not given is 1; the   *)
(* lists are returned once every unit is placed.                           *)
(***************************************************************************)
C12_ReferenceGreedy == [][DWValid => RefGreedyStep]_vars

\* The call on two workers of capacities 1 and 2 and two units of default
\* weight, given in the order 2, 1, has returned: both units went to the
\* second worker, the second of them on equal quotients by its larger
\* capacity, and they keep their input order.
C12_Witness ==
    /\ dwPc = "done"
    /\ dwArgs.nproc = 2
    /\ dwArgs.ids = <<2, 1>>
    /\ dwArgs.weights = NoneVal
    /\ dwArgs.capacities = Some(<<1, 2>>)
    /\ dwProcs.dist = <<<<>>, <<2, 1>>>>
    /\ dwProcs.load = <<0, 2>>

\* The call has returned on a valid configuration; its numbers of workers
\* and of units, and the number of units of worker i.
DWReturned == DWValid /\ dwPc = "done"
NWorkers == dwArgs.nproc
NUnits == Len(dwArgs.ids)
Share(i) == Len(dwProcs.dist[i])

\* Every unit has the same weight; every unit has the same positive weight;
\* every worker has the same capacity.
UniformWeights == \A x, y \in Range(dwArgs.ids) : RefWeight(x) = RefWeight(y)
UniformPositiveWeights == UniformWeights /\ \A x \in Range(dwArgs.ids) : RefWeight(x) > 0
EqualCapacities == \A i, q \in 1..NWorkers : RefCapacity(i) = RefCapacity(q)

\* The shares differ by at most one, and are all |U|/n when n divides |U|.
Balanced ==
    /\ \A i, q \in 1..NWorkers : Share(i) - Share(q) <= 1
    /\ NUnits % NWorkers = 0 => \A i \in 1..NWorkers : Share(i) = NUnits \div NWorkers

(***************************************************************************)
(* C13: when a call with units of one positive weight and workers of one   *)
(* capacity has returned, the lengths of the workers' lists differ by at   *)
(* most one, and every list has |U|/n units when n divides |U|.            *)
(***************************************************************************)
C13_UniformBalance ==
    (DWReturned /\ UniformPositiveWeights /\ EqualCapacities) => Balanced

\* The same for units of one weight, whatever it is.
C13_UniformBalanceAnyWeight ==
    (DWReturned /\ UniformWeights /\ EqualCapacities) => Balanced

\* The first call of test_distribute_work has returned: 4 units on 2
\* workers, two units each.
C13_Witness ==
    /\ dwPc = "done"
    /\ dwArgs = [nproc |-> 2, ids |-> <<0, 1, 2, 3>>, weights |-> NoneVal, capacities |-> NoneVal]
    /\ Share(1) = 2 /\ Share(2) = 2

\* The sum of the capacities, and whether every worker's proportional share
\* of the units is a whole number.
TotalCapacity == SumOver(1..NWorkers, [i \in 1..NWorkers |-> RefCapacity(i)])
WholeShares == \A i \in 1..NWorkers : (NUnits * RefCapacity(i)) % TotalCapacity = 0

(***************************************************************************)
(* C14: when a call with units of one positive weight has returned and     *)
(* |U|*c_i/sum(c) is a whole number for every worker i, worker i holds     *)
(* exactly that many units.                                                *)
(***************************************************************************)
C14_ProportionalToCapacity ==
    (DWReturned /\ UniformPositiveWeights /\ WholeShares) =>
        \A i \in 1..NWorkers : Share(i) = (NUnits * RefCapacity(i)) \div TotalCapacity

\* The third call of test_distribute_work has returned: 4 units on workers
\* of capacities 1 and 3, one unit and three units.
C14_Witness ==
    /\ dwPc = "done"
    /\ dwArgs = [nproc |-> 2, ids |-> <<0, 1, 2, 3>>, weights |-> NoneVal,
                 capacities |-> Some(<<1, 3>>)]
    /\ Share(1) = 1 /\ Share(2) = 3

\* The weight of unit x is at least the sum of the weights of the others.
Heavy(x) ==
    LET others == Range(dwArgs.ids) \ {x}
    IN  RefWeight(x) >= SumOver(others, [y \in others |-> RefWeight(y)])

(***************************************************************************)
(* C15: when a call on 2 workers of equal capacity with positive weights   *)
(* has returned, a unit whose weight is at least the sum of the weights of *)
(* all other units is the only unit of its worker, and all other units are *)
(* on the other worker.                                                    *)
(***************************************************************************)
C15_HeavyUnitAlone ==
    (/\ DWReturned
     /\ NWorkers = 2
     /\ EqualCapacities
     /\ \A x \in Range(dwArgs.ids) : RefWeight(x) > 0) =>
        \A x \in Range(dwArgs.ids) : Heavy(x) =>
            \E i \in 1..2 :
                /\ dwProcs.dist[i] = <<x>>
                /\ Range(dwProcs.dist[3 - i]) = Range(dwArgs.ids) \ {x}

\* The second call of test_distribute_work has returned: the unit of
\* weight 3 alone on the first worker, the three units of weight 1 on the
\* second.
C15_Witness ==
    /\ dwPc = "done"
    /\ dwArgs.ids = <<0, 1, 2, 3>>
    /\ dwArgs.weights # NoneVal
    /\ dwArgs.capacities = NoneVal
    /\ dwProcs.dist = <<<<0>>, <<1, 2, 3>>>>

\* No unit has been placed on any worker.
NothingAssigned == \A i \in DOMAIN dwProcs.dist : dwProcs.dist[i] = <<>>

(***************************************************************************)
(* C16: a call whose configuration is invalid (a capacity that is zero or  *)
(* negative, no worker, or weights without an entry for some unit) never   *)
(* places a unit and never returns: it ends by raising.                    *)
(***************************************************************************)
C16_InvalidConfigRaises ==
    ~DWValid => (dwPc \in {"call", "loop", "raised"} /\ NothingAssigned)

\* The call on two workers of capacities -1 and 1 has returned, with both
\* units on the worker of negative capacity.
C16_Witness ==
    /\ dwPc = "done"
    /\ dwArgs.ids = <<1, 2>>
    /\ dwArgs.capacities = Some(<<-1, 1>>)
    /\ dwProcs.dist = <<<<1, 2>>, <<>>>>

(***************************************************************************)
(* Claims about the scan, continued.                                       *)
(***************************************************************************)
\* The fits of targets with weight performed so far.
WeightedFits ==
    LET S == {e \in BagToSet(fits) : e[3] \notin scanCfg.zerow}
    IN  SumOver(S, [e \in S |-> CopiesIn(e, fits)])

\* Nothing of pool mode has happened: no distribution of the targets, no
\* process, no queue entry, no process waiting on a queue.
NoPoolActivity ==
    /\ mpdist = <<>> /\ procs = {} /\ qout = <<>> /\ qprog = <<>>
    /\ \A i \in Children : child[i] = NoChild
    /\ \A r \in Ranks : pc[r] \notin {"progress", "collect"}

\* Nothing of ring mode has happened: no pass of the while loop, no slice
\* sent, no concatenation.
NoRingActivity ==
    \A r \in Ranks : pc[r] \notin {"fit", "recv", "concat"} /\ chan[r] = <<>>

(***************************************************************************)
(* C17: a scan runs in one mode only: in ring mode nothing of pool mode    *)
(* ever happens and the fit routine never calls put on a progress queue;   *)
(* in pool mode nothing of ring mode ever happens and the fit routine has  *)
(* called put once for every fit of a target with weight.                  *)
(***************************************************************************)
C17_OneModePerScan ==
    /\ IsRing => (NoPoolActivity /\ nput = 0)
    /\ IsPool => (NoRingActivity /\ nput = WeightedFits)

\* In ring mode, on a template without communicator, the fit routine has
\* called put and the rank has left the scan with the exception.
C17_Witness ==
    /\ IsRing
    /\ ~TemplateComm
    /\ nput = 1
    /\ pc[1] = "raised"

\* The ids of the targets handed to process i, and the processes that hold
\* target tid.
HandedIds(i) == {child[i].data[j].id : j \in DOMAIN child[i].data}
Holders(tid) == {i \in Children : tid \in HandedIds(i)}

\* The coordinator has started the processes of a template.
HasSpawned == ti[1] > 1 \/ pc[1] \in {"progress", "collect", "store", "raised", "done"}

(***************************************************************************)
(* C18: in pool mode, once the processes of a template are started, every  *)
(* local target is held by exactly one process, the processes started are  *)
(* those with a non-empty assignment and each holds the targets of its     *)
(* assignment; and whenever the coordinator stands before the next         *)
(* template, every process started for the previous one has put its result *)
(* and the coordinator has taken one result per process.                   *)
(***************************************************************************)
C18_PoolOwnership ==
    IsPool =>
        /\ \A i \in Children :
              /\ i \in procs <=> child[i] # NoChild
              /\ i \in procs =>
                    /\ child[i].ids # <<>>
                    /\ child[i].ids = mpdist[i]
                    /\ HandedIds(i) = Range(child[i].ids)
                    /\ Len(child[i].data) = Len(child[i].ids)
              /\ (HasSpawned /\ i \notin procs) => mpdist[i] = <<>>
        /\ HasSpawned => \A tid \in Range(LocalIds(1)) : Cardinality(Holders(tid)) = 1
        /\ (HasSpawned /\ pc[1] \in {"tmpl", "store", "done"}) =>
              /\ \A i \in procs : child[i].pc = "exit"
              /\ nrecv = Cardinality(procs)
              /\ qout = <<>>

\* The processes of the second template are running: two processes with
\* one target each, after the two processes of the first template have
\* delivered their results.
C18_Witness ==
    /\ IsPool
    /\ ti[1] = 2
    /\ pc[1] = "progress"
    /\ Cardinality(procs) = 2
    /\ \A i \in procs : child[i].pc = "run" /\ Len(child[i].ids) = 1

(***************************************************************************)
(* C19: in pool mode, whenever a process has raised during its fit, it has *)
(* put no result on the result queue, none of its rows has reached the     *)
(* coordinator, and the coordinator stands in one of its two reading loops *)
(* (the progress counts, the results): it has not raised, has not gone on  *)
(* to store the template, and has not returned.  A process that has raised *)
(* stays so, hence the coordinator never returns.                          *)
(***************************************************************************)
C19_FailureStalls ==
    IsPool =>
        \A i \in Children : child[i].pc = "failed" =>
            /\ pc[1] \in {"progress", "collect"}
            /\ ti[1] <= NTemplates
            /\ \A m \in DOMAIN qout : qout[m].indx # i
            /\ nrecv < Cardinality(procs)
            /\ \A tid \in Range(mpdist[i]) : tid \notin DOMAIN acc[1].zchi2

\* A process has raised after its fits, all progress counts have arrived,
\* and the coordinator waits on the empty result queue for a result that
\* will not come.
C19_Witness ==
    /\ IsPool
    /\ \E i \in Children : child[i].pc = "failed"
    /\ pc[1] = "collect"
    /\ qout = <<>>
    /\ \A i \in procs : child[i].pc \in {"failed", "exit"}

\* The step between two progress lines that rank r fixed before its loop.
Granularity(r) ==
    IF IsPool THEN progincr
    ELSE IF TemplateComm THEN RingProgChunk(scanCfg.size) ELSE ProgChunkDefault

(***************************************************************************)
(* C20: within the scan of one template, in ring mode and in pool mode,    *)
(* every percentage written is greater than the one written before it, and *)
(* greater by exactly the granularity fixed before the loop.               *)
(***************************************************************************)
C20_ProgressSteps ==
    \A r \in Ranks : \A i \in 1..(Len(emitted[r]) - 1) :
        /\ emitted[r][i + 1] > emitted[r][i]
        /\ emitted[r][i + 1] - emitted[r][i] = Granularity(r)

\* A scan of 101 targets with 102 processes has granularity 0 and has
\* written 0 three times.
C20_Witness ==
    /\ IsPool
    /\ Len(LocalIds(1)) = 101
    /\ scanCfg.mp_procs = 102
    /\ progincr = 0
    /\ emitted[1] = <<0, 0, 0>>

(***************************************************************************)
(* Claims about progress reporting and the order of the scan.              *)
(***************************************************************************)
AllResultsPut == \A i \in procs : child[i].pc = "exit"

\* The coordinator is in qprog.get() with nothing to get and nobody left to
\* put a count: every result it needs is there and it never takes them.
HeldByProgress ==
    /\ IsPool
    /\ pc[1] = "progress"
    /\ qprog = <<>>
    /\ AllResultsPut

\* A rank of the ring has stopped in the call progress.put(1).
StoppedByProgress == \E r \in Ranks : IsRing /\ pc[r] = "raised"

(***************************************************************************)
(* C21: progress reporting does not decide whether a scan completes: a     *)
(* coordinator whose processes have all put their results is never held    *)
(* waiting for a progress count, and no rank of a ring is stopped by a     *)
(* push of a count.                                                        *)
(***************************************************************************)
C21_ProgressObservational == ~HeldByProgress /\ ~StoppedByProgress

C21_Witness ==
    /\ IsPool
    /\ pc[1] = "done"
    /\ nput > 0
    /\ \E k \in 1..NTemplates : Len(emitted[1]) > 1

\* The state of the coordinator's machine a rank is in.  The head of
\* "for t in templates" is Distributing before the first template (the
\* distribution has just been computed) and Merging after a template (its
\* record has just been written); a rank stopped by an exception is Aborted.
Phase(r) ==
    CASE pc[r] = "init" -> "Initializing"
      [] pc[r] = "tmpl" -> IF ti[r] = 1 THEN "Distributing" ELSE "Merging"
      [] pc[r] \in {"fit", "recv", "progress", "collect"} -> "Scanning"
      [] pc[r] \in {"concat", "store"} -> "Merging"
      [] pc[r] = "done" -> "Done"
      [] OTHER -> "Aborted"

\* The moves of the machine.  A rank of a ring without local targets makes
\* no pass of the scanning loop and goes on to the merge at once.
PhaseMoves(r) ==
    {<<"Initializing", "Distributing">>,
     <<"Distributing", "Scanning">>, <<"Scanning", "Scanning">>,
     <<"Scanning", "Merging">>, <<"Merging", "Merging">>,
     <<"Merging", "Scanning">>, <<"Merging", "Done">>,
     <<"Distributing", "Aborted">>, <<"Scanning", "Aborted">>, <<"Merging", "Aborted">>}
    \cup (IF Len(LocalIds(r)) = 0 THEN {<<"Distributing", "Merging">>} ELSE {})

\* The (target, template) records present in the results of rank r.
Written(r) == UNION {{<<tid, k>> : k \in DOMAIN results[r][tid]} : tid \in DOMAIN results[r]}

\* The process or rank that made a fit belongs to the scan of this rank.
FitRank(f) == IF IsPool THEN 1 ELSE f[1]

\* Rank r has made every fit of template k that is its to make: in a ring
\* every local target on every slice, in pool mode every local target in
\* some process, and every process started has delivered its result.
ScanFinished(r, k) ==
    IF IsRing
    THEN \A tid \in Range(LocalIds(r)) : \A p \in 1..scanCfg.size :
            CopiesIn(<<r, k, tid, p>>, fits) >= 1
    ELSE /\ \A tid \in Range(LocalIds(r)) : \E i \in procs :
            CopiesIn(<<i, k, tid, 0>>, fits) >= 1
         /\ nrecv = Cardinality(procs)
         /\ \A i \in procs : child[i].pc = "exit"

ScanOrderStep(r) ==
    /\ pc'[r] # pc[r] \/ ti'[r] # ti[r] => <<Phase(r), Phase(r)'>> \in PhaseMoves(r)
    /\ mpdist' # mpdist => IsPool /\ pc[1] = "init" /\ fits = EmptyBag
    /\ pc[r] # "init" => mpdist' = mpdist
    /\ ti'[r] # ti[r] =>
        /\ ti'[r] = ti[r] + 1
        /\ pc[r] \in {"init", "store"}
    /\ \A f \in BagToSet(fits') :
        (FitRank(f) = r /\ CopiesIn(f, fits') > CopiesIn(f, fits)) =>
            /\ f[2] = ti[r]
            /\ Phase(r) = "Scanning"
    /\ Written(r)' # Written(r) =>
        /\ pc[r] = "store"
        /\ ScanFinished(r, ti[r])
        /\ Written(r)' = Written(r) \cup {<<tid, ti[r]>> : tid \in Range(LocalIds(r))}
    /\ (pc'[r] = "done" /\ pc[r] # "done") =>
        /\ ti[r] = NTemplates + 1
        /\ Written(r) = Range(LocalIds(r)) \X (1..NTemplates)

(***************************************************************************)
(* C22: every rank moves from Initializing to Distributing, then through   *)
(* Scanning and Merging once per template, then to Done, an exception      *)
(* apart: the distribution of the targets is computed once, before any     *)
(* fit; the templates are taken one at a time in list order and every fit  *)
(* made is for the current template; the record of a template is written   *)
(* into the results only when all its fits are made and gathered; and a    *)
(* rank is Done only after the record of the last template is written.     *)
(***************************************************************************)
C22_ScanOrder == [][\A r \in Ranks : ScanOrderStep(r)]_vars

C22_Witness ==
    /\ IsPool
    /\ NTemplates = 2
    /\ pc[1] = "done"
    /\ Written(1) = Range(LocalIds(1)) \X (1..2)
    /\ Len(LocalIds(1)) = 2

(***************************************************************************)
(* Claims about the fit, continued.                                        *)
(***************************************************************************)
\* The number of pixels of the bands before band b.
BandOffset(spectra, fld, b) == SumSeq([c \in 1..(b - 1) |-> Len(spectra[c][fld])])

\* v is the bands' vectors of field fld laid end to end in band order.
IsConcatOf(v, spectra, fld) ==
    /\ DOMAIN v = 1..SumSeq([b \in DOMAIN spectra |-> Len(spectra[b][fld])])
    /\ \A b \in DOMAIN spectra : \A i \in DOMAIN spectra[b][fld] :
        v[BandOffset(spectra, fld, b) + i] = spectra[b][fld][i]

\* Path p passes, in this step, the iteration of the target it stands at.
V3Iterates(p) == fitJ[p] >= 1 /\ fitJ'[p] = fitJ[p] + 1

(***************************************************************************)
(* C23: in every iteration of the fit over a target, spectral_data of the  *)
(* target's spectra gives weights and flux that are the bands' ivar and    *)
(* flux vectors laid end to end in band order, their length the sum of the *)
(* band lengths, and wflux[i] = weights[i] * flux[i] for every i; the      *)
(* spectra are after the iteration what they were before.                  *)
(***************************************************************************)
C23_SpectralData ==
    [][\A p \in Paths : V3Iterates(p) =>
        LET spectra == fitIn.target_data[fitJ[p]].spectra
            sd == spectral_data(spectra)
        IN  /\ IsConcatOf(sd.weights, spectra, "ivar")
            /\ IsConcatOf(sd.flux, spectra, "flux")
            /\ DOMAIN sd.wflux = DOMAIN sd.weights
            /\ \A i \in DOMAIN sd.wflux : sd.wflux[i] = sd.weights[i] * sd.flux[i]
            /\ fitIn'.target_data = fitIn.target_data]_vars

C23_Witness ==
    \E j \in 1..FitNTargets :
        /\ fitJ["cpu"] > j
        /\ LET sd == spectral_data(fitIn.target_data[j].spectra)
           IN  /\ sd.weights = <<2, 1, 1>>
               /\ sd.flux = <<0, 1, 2>>
               /\ sd.wflux = <<0, 1, 2>>

(***************************************************************************)
(* Claims about the ring and the pool, continued.                          *)
(***************************************************************************)
\* A rank in the exchange has handed its slice on and holds none until the
\* next one arrives.
Holding(r) == pc[r] # "recv"
ResidentOn(p) == {r \in Ranks : Holding(r) /\ tlocal[r] = p}
InFlight(p) ==
    UNION {{<<r, i>> : i \in {x \in DOMAIN chan[r] : chan[r][x].index = p}} : r \in Ranks}

NoExchange == \A r \in Ranks : Holding(r) /\ chan[r] = <<>>

AccFields == {"zchi2", "zcoeff", "penalty"}

\* Every row rank r keeps under slice index p was computed on the redshifts
\* of slice p, on the spectra of the target it is kept for.
StoredUnderOwnIndex(r) ==
    \A f \in AccFields : \A tid \in DOMAIN acc[r][f] :
        "slices" \in DOMAIN acc[r][f][tid] =>
            \A p \in DOMAIN acc[r][f][tid].slices :
                LET row == acc[r][f][tid].slices[p]
                    zs == SliceRedshifts(scanCfg.nz[ti[r]], scanCfg.size, p)
                IN  /\ Len(row) = Len(zs)
                    /\ \A i \in DOMAIN row : row[i].z = zs[i] /\ row[i].src = tid

(***************************************************************************)
(* C24: in ring mode every slice is at every moment in exactly one place,  *)
(* resident on one rank or on its way between two ranks, so that whenever  *)
(* no exchange is under way every rank holds one slice and the resident    *)
(* slices are a permutation of all the slices; and every row a rank keeps  *)
(* is kept under the index of the slice it was computed on.                *)
(***************************************************************************)
C24_RingSlices ==
    IsRing =>
        /\ \A p \in 1..scanCfg.size :
            Cardinality(ResidentOn(p)) + Cardinality(InFlight(p)) = 1
        /\ NoExchange => {tlocal[r] : r \in Ranks} = 1..scanCfg.size
        /\ \A r \in Ranks : StoredUnderOwnIndex(r)

\* Rank 2 of 2 holds slice 1 after an exchange and keeps a row under 2.
C24_Witness ==
    /\ IsRing
    /\ scanCfg.size = 2
    /\ NoExchange
    /\ tlocal = <<2, 1>>
    /\ pc[2] = "fit"
    /\ \E tid \in DOMAIN acc[2].zchi2 : 2 \in DOMAIN acc[2].zchi2[tid].slices

(***************************************************************************)
(* C25: on the CPU path, at the return of the call, for every target with  *)
(* weight and every redshift i of the grid, zchi2[i] and zcoeff[i] are the *)
(* chi2 and the coefficients that calc_zchi2_one returns for the template  *)
(* data of redshift i alone; on a singular redshift both give 9e99 and     *)
(* coefficients of zero.                                                   *)
(***************************************************************************)
C25_BatchAgreesWithOne ==
    JustReturned("cpu") =>
        \A j \in 1..FitNTargets : HasWeight(j) =>
            LET sd == spectral_data(FitSpectra(j))
            IN  \A i \in 1..FitNz :
                    LET one == calc_zchi2_one(FitSpectra(j), sd.weights, sd.flux,
                                              sd.wflux, fitIn.data[i])
                    IN  /\ fitOut["cpu"].zchi2[j][i] = one.zchi2
                        /\ fitOut["cpu"].zcoeff[j][i] = one.zcoeff
                        /\ SingularAt(j, i) =>
                            one.zchi2 = Sentinel9e99 /\ one.zcoeff = ZeroVec(FitNBasis)

\* A grid with a singular and a regular redshift whose fits differ.
C25_Witness ==
    /\ JustReturned("cpu")
    /\ \E j \in 1..FitNTargets : \E i1, i2 \in 1..FitNz :
        /\ HasWeight(j)
        /\ SingularAt(j, i1)
        /\ ~SingularAt(j, i2)
        /\ fitOut["cpu"].zchi2[j][i1] = Sentinel9e99
        /\ fitOut["cpu"].zcoeff[j][i2] # ZeroVec(FitNBasis)

RowFields == {"zchi2", "zcoeff", "penalty"}

\* Every entry of row was computed on the spectra of target tid.
ComputedFrom(row, tid) == \A i \in DOMAIN row : row[i].src = tid

(***************************************************************************)
(* C26: in pool mode, with the targets distributed under uniform weights,  *)
(* element j of the target data handed to a process is the target named by *)
(* id j of its assignment, row j of its result was computed on the spectra *)
(* of that target, and every row the coordinator keeps or writes into the  *)
(* results under a target id was computed on the spectra of that target.   *)
(***************************************************************************)
C26_PoolRowsUnderOwnId ==
    IsPool =>
        /\ \A i \in procs :
            /\ DOMAIN child[i].data = DOMAIN child[i].ids
            /\ \A j \in DOMAIN child[i].ids : child[i].data[j].id = child[i].ids[j]
            /\ \A j \in DOMAIN child[i].rows : \A f \in RowFields :
                ComputedFrom(child[i].rows[j][f], child[i].ids[j])
        /\ \A f \in RowFields : \A tid \in DOMAIN acc[1][f] :
            ComputedFrom(acc[1][f][tid].vec, tid)
        /\ \A tid \in DOMAIN results[1] : \A k \in DOMAIN results[1][tid] :
            \A f \in RowFields : ComputedFrom(results[1][tid][k][f], tid)

\* One process was given two targets and its rows are in the results.
C26_Witness ==
    /\ IsPool
    /\ pc[1] = "done"
    /\ \E i \in procs : Len(child[i].ids) = 2 /\ Len(child[i].rows) = 2
    /\ \A tid \in {1, 2} : tid \in DOMAIN results[1] /\ 1 \in DOMAIN results[1][tid]

(***************************************************************************)
(* Claims about distribute_work, continued.                                *)
(***************************************************************************)
\* The load of worker i: the sum of the weights of the units in its list.
WorkerLoad(i) ==
    LET units == Range(dwProcs.dist[i])
    IN  SumOver(units, [x \in units |-> RefWeight(x)])

\* No load is further from another than by d.
LoadsWithin(d) == \A i, q \in 1..NWorkers : WorkerLoad(i) - WorkerLoad(q) <= d

\* No unit weighs more than unit x.
Heaviest(x) == \A y \in Range(dwArgs.ids) : RefWeight(y) <= RefWeight(x)

(***************************************************************************)
(* C27: when a call with workers of one capacity and units of non-negative *)
(* weight has returned, the greatest load of a worker exceeds the smallest *)
(* by at most the greatest weight of a unit (by nothing when there is no   *)
(* unit).                                                                  *)
(***************************************************************************)
C27_LoadSpread ==
    (/\ DWReturned
     /\ EqualCapacities
     /\ \A x \in Range(dwArgs.ids) : RefWeight(x) >= 0) =>
        /\ NUnits = 0 => LoadsWithin(0)
        /\ \A x \in Range(dwArgs.ids) : Heaviest(x) => LoadsWithin(RefWeight(x))

\* Three units of unequal weight on two workers, the loads apart by the
\* greatest weight.
C27_Witness ==
    /\ dwPc = "done"
    /\ DWValid
    /\ EqualCapacities
    /\ NWorkers = 2
    /\ NUnits = 3
    /\ ~UniformWeights
    /\ \E x \in Range(dwArgs.ids) : \E i, q \in 1..2 :
        Heaviest(x) /\ WorkerLoad(i) - WorkerLoad(q) = RefWeight(x)

(***************************************************************************)
(* Claims about progress reporting, continued.                             *)
(***************************************************************************)
\* The template whose progress lines rank r has written last.
ReportedTemplate(r) == IF pc[r] \in {"tmpl", "done"} THEN ti[r] - 1 ELSE ti[r]

\* The work of the reported template that is completed, and all of it: in a
\* ring the passes of rank r over the slices, each pass fitting every local
\* target; in pool mode the local targets fitted by the processes.
Completed(r) ==
    IF IsRing
    THEN Cardinality({p \in 1..scanCfg.size :
            /\ LocalIds(r) # <<>>
            /\ \A tid \in Range(LocalIds(r)) :
                CopiesIn(<<r, ReportedTemplate(r), tid, p>>, fits) >= 1})
    ELSE SumOver(procs, [i \in procs |-> Len(child[i].rows)])
TotalWork(r) == IF IsRing THEN scanCfg.size ELSE Len(LocalIds(r))

\* int(100 * completed / total).
TruePercent(r) == IF TotalWork(r) = 0 THEN 0 ELSE (100 * Completed(r)) \div TotalWork(r)

\* The percentages rank r writes in this step.
NewlyEmitted(r) ==
    IF Len(emitted'[r]) > Len(emitted[r]) /\ SubSeq(emitted'[r], 1, Len(emitted[r])) = emitted[r]
    THEN {emitted'[r][i] : i \in (Len(emitted[r]) + 1)..Len(emitted'[r])}
    ELSE IF emitted'[r] # emitted[r] THEN Range(emitted'[r]) ELSE {}

(***************************************************************************)
(* C28: in ring mode and in pool mode, every percentage a process writes   *)
(* for a template is, once the step that writes it is made, at most the    *)
(* percentage of the work of that template that is completed,              *)
(* int(100 * completed / total), and at most 100.                          *)
(***************************************************************************)
C28_ProgressNotAhead ==
    [][\A r \in Ranks : \A v \in NewlyEmitted(r) :
            v <= TruePercent(r)' /\ v <= 100]_vars

\* A coordinator with more processes than targets has written 100 %, and
\* the first rank of a ring of two has written 50 % after its first pass.
C28_Witness ==
    \/ /\ IsPool
       /\ scanCfg.mp_procs > Len(LocalIds(1))
       /\ emitted[1] = <<0, 100>>
    \/ /\ IsRing
       /\ scanCfg.size = 2
       /\ emitted[1] = <<0, 50>>
       /\ pc[1] = "recv"

\* The rows of the fit of target tid on the full grid of template k with
\* use_gpu=False.
CpuRows(tid, k) == FitTarget(TargetObj(tid), k, Redshifts(k), FALSE)

\* No entry of row comes from a fit that ran with use_gpu=True.
NoGpuEntry(row) == \A x \in DOMAIN row : ~row[x].gpu

(***************************************************************************)
(* C29: in pool mode, whatever the use_gpu the scan was called with, every *)
(* row a process computes comes from a fit with use_gpu=False, and the     *)
(* results the scan returns are, for every local target and template, the  *)
(* rows of the fit with use_gpu=False: they do not depend on the flag.     *)
(***************************************************************************)
C29_PoolIgnoresUseGpu ==
    IsPool =>
        /\ \A i \in procs : \A j \in DOMAIN child[i].rows : \A f \in RowFields :
            NoGpuEntry(child[i].rows[j][f])
        /\ pc[1] = "done" =>
            \A tid \in Range(LocalIds(1)) : \A k \in 1..NTemplates :
                \A f \in RowFields : results[1][tid][k][f] = CpuRows(tid, k)[f]

\* A scan called with use_gpu=True has returned the rows of two targets.
C29_Witness ==
    /\ IsPool
    /\ scanCfg.use_gpu
    /\ pc[1] = "done"
    /\ Len(LocalIds(1)) = 2
    /\ scanCfg.zerow = {}
    /\ \A tid \in {1, 2} : results[1][tid][1].zchi2 = CpuRows(tid, 1).zchi2


(***************************************************************************)
(* C30                                                                     *)
(***************************************************************************)
\* The threads of the launch that add to the element followed.
KernelContributors ==
    {i \in 0..(KernelThreads - 1) : i < KernelN /\ ThreadElement(i) = kIn.element}

\* The rows of the contributors are pairwise disjoint and together the rows
\* 0 .. nrows-1.
RowsPartitioned ==
    /\ Cardinality(KernelContributors) = kGrid.nparallel
    /\ \A i1, i2 \in KernelContributors :
           i1 # i2 => ThreadRows(i1) \cap ThreadRows(i2) = {}
    /\ UNION {ThreadRows(i) : i \in KernelContributors} = 0..(kIn.nrows - 1)

\* C30: in a launch of the batched 3d-by-3d kernel with blocks of 512
\* threads, nparallel is 4 or 64, the row ranges [start, end) of the
\* nparallel threads of an element of M are pairwise disjoint with union
\* [0, nrows), no product term is ever added twice to the element, and when
\* the kernel has run every term has been added exactly once, whatever
\* nrows is.
C30_KernelAddsOnce ==
    /\ kPc = "running" /\ kRan = 0 =>
           /\ BlockSize = 512
           /\ kGrid.nparallel \in {4, 64}
           /\ RowsPartitioned
    /\ kPc \in {"running", "done"} => \A j \in DOMAIN kAdded : kAdded[j] <= 1
    /\ kPc = "done" =>
           /\ DOMAIN kAdded = 0..(kIn.nrows - 1)
           /\ \A j \in DOMAIN kAdded : kAdded[j] = 1

\* A launch has run for an element whose threads begin the second block,
\* on more rows than threads per element and not a multiple of them.
C30_Witness ==
    /\ kPc = "done"
    /\ kIn.element * kGrid.nparallel = BlockSize
    /\ kIn.nrows > kGrid.nparallel
    /\ kIn.nrows % kGrid.nparallel # 0
    /\ \A j \in 0..(kIn.nrows - 1) : kAdded[j] = 1

====
